---- MODULE Spec2Model ----
(***************************************************************************)
(* Verification model of the AI Base console (aintandem-ce-console).       *)
(*                                                                         *)
(* The console is a set of loosely coupled React components and hooks.     *)
(* Each group of variables below is the state of one of them; each action  *)
(* is one handler, effect or promise continuation, taken as one step of    *)
(* the browser's event loop (code between two awaits runs atomically).     *)
(* The remote service is an external collaborator: every call to it may    *)
(* resolve or reject, at any later step.                                   *)
(***************************************************************************)
EXTENDS Integers, Sequences, FiniteSets, TLC

(***************************************************************************)
(* Bounds of the model.                                                    *)
(***************************************************************************)
MaxSubs == 2        \* subscribe() calls made during one component lifetime
MaxEvents == 2      \* realtime events pushed by the server
MaxCalls == 3       \* listTaskHistory calls one component makes during its lifetime
MaxOps == 2         \* handler calls made during one run
MaxSandboxes == 3   \* sandboxes the service creates during one run
MaxConfirms == 3    \* confirm() dialogs shown during one run
MaxIndex == 3       \* largest phase or step position a delete button is clicked at
MaxPhases == 2      \* phases of a workflow definition
MaxSteps == 2       \* steps of one phase
MaxMoves == 1       \* moveToNextPhase calls made during one run
MaxPatches == 2     \* updateStepStatus calls made during one run
MaxEditedPhases == 3 \* phases the edited definition may grow to
MaxEditedSteps == 3  \* steps a phase of the edited definition may grow to
MaxEdits == 2        \* operations of the user on the editor during one run
MaxScopeSelections == 2 \* selections of the user on the context page during one run
MaxTransitions == 2  \* transitions of a workflow definition

VARIABLES
  \* ---- EnhancedTaskHistory (src/unnamed/part_012) ----
  phase,              \* "init" | "mounted" | "unmounted"
  projectId,          \* the projectId prop
  initialTasksLoaded, \* useState(false)
  loading,            \* useState(true)
  fetchError,         \* useState(null): TRUE when an error message is set
  tasksMap,           \* useState(new Map()): taskId -> TaskExecution
  listPending,        \* listTaskHistory calls in flight
  listCalls,          \* listTaskHistory calls made so far
  \* ---- useRealtimeTaskProgress (src/unnamed/part_014) ----
  isConnected,        \* useState(false)
  connectionState,    \* useState('disconnected')
  hookError,          \* useState(null): TRUE when an Error is set
  unsubscribeRef,     \* useRef(null): 0 is null, i the unsubscribe of call i
  subs,               \* one record per subscribe() call made so far
  connApi,            \* whether progress.onConnectionState exists (it is optional)
  \* ---- the realtime channel ----
  delivered,          \* events the server pushed to a registered task callback
  onEventLog          \* events passed to options.onEvent, in call order

VARIABLES
  \* ---- authenticatedFetch (src/src/lib/api/api-helpers.ts, src/unnamed/part_005) ----
  authImpl,           \* which copy of authenticatedFetch the caller imported
  desktop,            \* window.__IN_AINTANDEM_DESKTOP__
  authPc,             \* "idle" | "awaiting" | "done" | "rejected"
  authHeader,         \* whether the request carries an Authorization header
  storageKeys,        \* the keys present in localStorage
  location,           \* window.location.href, as a path
  httpStatus,         \* the status code the service answered the call with
  respStatus          \* response.status as authenticatedFetch reads it

VARIABLES
  \* ---- selection state (useAIBaseQueryState, useAIBaseState) ----
  navHook,            \* which of the two hooks the page uses
  selectedOrganization,
  selectedWorkspace,
  selectedProject,
  viewMode,
  navLast             \* the last selection handler called and the state it found

VARIABLES
  \* ---- create / update / delete handlers (src/unnamed/part_013) ----
  sandboxes,          \* the sandboxes the service holds: [id, project]
  nextSandbox,        \* the id the service gives the next sandbox
  projectsCache,      \* project.sandboxId of the cached project list (0: none)
  ops,                \* one record per handler call made so far
  cardAwaits,         \* whether the view hands the handler's promise to ProjectCard
  cardBusy            \* ProjectCard's isCreating/isDestroying/isRecreatingSandbox

VARIABLES
  \* ---- TaskHistoryPanel (src/src/components/task/quick-task-launcher.tsx) ----
  thpPhase,           \* "init" | "mounted" | "unmounted"
  thpProjectId,       \* the projectId prop
  thpLoading,         \* useState(true)
  thpError,           \* useState(null): TRUE when a message is set
  thpPending,         \* listTaskHistory calls in flight
  thpCalls,           \* listTaskHistory calls made so far
  thpInterval         \* whether the setInterval timer is armed

VARIABLES
  \* ---- error display (part_011, hierarchy-view.tsx) ----
  atd,                \* AdvancedTaskDialog
  wsDialog,           \* the "Add Workspace" dialog of HierarchyView
  aiConfig,           \* ProjectCard's sandbox configuration dialog
  toasts,             \* toast messages shown
  consoleErrors       \* what was written with console.error

VARIABLES
  \* ---- deleting workflows, phases and steps ----
  workflows,          \* WorkflowsPage: useState<Workflow[]>, as a set of ids
  deleteRequests,     \* deleteWorkflow requests sent, in order
  alerts,             \* alert() messages shown
  phases,             \* VisualWorkflowEditor: the phases prop
  confirmLog          \* confirm() dialogs shown and their answers, in order

VARIABLES
  \* ---- VisualWorkflowEditor layout (visual-workflow-editor.tsx) ----
  layPhases,          \* the phases prop, each phase with its id and step ids
  layNodes,           \* elements.nodes of the last render
  layOut              \* layoutedElements.nodes of the last render

VARIABLES
  wfState,            \* the workflow state the service holds for the project
  wfPutMerges,        \* whether the service merges the stepStatuses of a PUT key by key
  wfMove,             \* the moveToNextPhase call: where it is and what it read
  wfMoves,            \* moveToNextPhase calls made so far
  wfPatches           \* the updateStepStatus calls made so far

VARIABLES
  \* ---- VisualWorkflowEditor dialogs and WorkflowEditorPage.handleSave ----
  phaseDialogMode,    \* 'add' or 'edit' (VisualWorkflowEditor state)
  selectedPhaseIndex, \* index handed to handleEditPhase, -1 at first
  isPhaseDialogOpen,  \* the phase dialog is shown
  stepDialogMode,     \* 'add' or 'edit'
  selectedStepIndices, \* the indices handed to handleAddStep or handleEditStep
  isStepDialogOpen,   \* the step dialog is shown
  saves,              \* the definitions handleSave sent, with their outcome
  edLast,             \* the last operation of the editor that called onChange
  edCount             \* operations of the user made so far, deletions apart

VARIABLES
  \* ---- HierarchyView 'Add Project' dialog ----
  projDialog          \* open flag, fields, and where its onSubmit is

VARIABLES
  \* ---- ContextPage scope selection (src/src/pages/context-page.tsx) ----
  scopeType,          \* ContextPage: 'organization' | 'workspace' | 'project'
  selectedOrgId,      \* '' while none
  selectedWorkspaceId,\* '' while none
  selectedProjectId,  \* '' while none
  organizations,      \* the listed organizations, in order
  workspaces,         \* the listed workspaces, in order
  projects,           \* the listed projects, in order
  isLoadingHierarchy, \* disables the organization selector
  hierarchy,          \* what the service holds: the parent of each workspace and project
  hierarchyRequests,  \* the list requests in flight, in the order they were sent
  scopeSelections     \* selections the user has made so far

VARIABLES
  \* ---- VisualWorkflowEditor edges (visual-workflow-editor.tsx) ----
  edgePhases,         \* the phases prop: each phase with its id and its steps
  transitions,        \* the transitions prop
  edges               \* elements.edges of the last render

rtVars == <<phase, projectId, initialTasksLoaded, loading, fetchError, tasksMap,
            listPending, listCalls, isConnected, connectionState, hookError,
            unsubscribeRef, subs, connApi, delivered, onEventLog>>
authVars == <<authImpl, desktop, authPc, authHeader, storageKeys, location,
              httpStatus, respStatus>>
navVars == <<navHook, selectedOrganization, selectedWorkspace, selectedProject,
             viewMode, navLast>>
crudVars == <<sandboxes, nextSandbox, projectsCache, ops, cardAwaits, cardBusy>>
pollVars == <<thpPhase, thpProjectId, thpLoading, thpError, thpPending,
              thpCalls, thpInterval>>
errVars == <<atd, wsDialog, aiConfig, toasts, consoleErrors>>
delVars == <<workflows, deleteRequests, alerts, phases, confirmLog>>
layVars == <<layPhases, layNodes, layOut>>
wfVars == <<wfState, wfPutMerges, wfMove, wfMoves, wfPatches>>
edVars == <<phaseDialogMode, selectedPhaseIndex, isPhaseDialogOpen,
           stepDialogMode, selectedStepIndices, isStepDialogOpen, saves,
           edLast, edCount>>
dlgVars == <<projDialog>>
ctxVars == <<scopeType, selectedOrgId, selectedWorkspaceId, selectedProjectId,
             organizations, workspaces, projects, isLoadingHierarchy,
             hierarchy, hierarchyRequests, scopeSelections>>
edgeVars == <<edgePhases, transitions, edges>>

vars == <<rtVars, authVars, navVars, crudVars, pollVars, errVars, delVars,
          layVars, wfVars, edVars, dlgVars, ctxVars, edgeVars>>

\* What the actions of one component leave alone: the other components.
notRt == <<authVars, navVars, crudVars, pollVars, errVars, delVars, layVars,
           wfVars, edVars, dlgVars, ctxVars, edgeVars>>
notAuth == <<rtVars, navVars, crudVars, pollVars, errVars, delVars, layVars,
             wfVars, edVars, dlgVars, ctxVars, edgeVars>>
notNav == <<rtVars, authVars, crudVars, pollVars, errVars, delVars, layVars,
            wfVars, edVars, dlgVars, ctxVars, edgeVars>>
notCrud == <<rtVars, authVars, navVars, pollVars, errVars, delVars, layVars,
             wfVars, edVars, dlgVars, ctxVars, edgeVars>>
notPoll == <<rtVars, authVars, navVars, crudVars, errVars, delVars, layVars,
             wfVars, edVars, dlgVars, ctxVars, edgeVars>>
notErr == <<rtVars, authVars, navVars, crudVars, pollVars, delVars, layVars,
            wfVars, edVars, dlgVars, ctxVars, edgeVars>>
notDel == <<rtVars, authVars, navVars, crudVars, pollVars, errVars, layVars,
            wfVars, edVars, dlgVars, ctxVars, edgeVars>>
notLay == <<rtVars, authVars, navVars, crudVars, pollVars, errVars, delVars,
            wfVars, edVars, dlgVars, ctxVars, edgeVars>>
notWf == <<rtVars, authVars, navVars, crudVars, pollVars, errVars, delVars,
           layVars, edVars, dlgVars, ctxVars, edgeVars>>
notEd == <<rtVars, authVars, navVars, crudVars, pollVars, errVars, delVars,
           layVars, wfVars, dlgVars, ctxVars, edgeVars>>
notDlg == <<rtVars, authVars, navVars, crudVars, pollVars, errVars, delVars,
            layVars, wfVars, edVars, ctxVars, edgeVars>>
notCtx == <<rtVars, authVars, navVars, crudVars, pollVars, errVars, delVars,
            layVars, wfVars, edVars, dlgVars, edgeVars>>
notEdge == <<rtVars, authVars, navVars, crudVars, pollVars, errVars, delVars,
             layVars, wfVars, edVars, dlgVars, ctxVars>>

(***************************************************************************)
(* Realtime task events (src/unnamed/part_000: TaskEvent).                 *)
(***************************************************************************)
ProjectIds == {"p1", "p2"}
TaskIds == {"t1", "t2"}
Artifacts == {"a1", "a2"}

Event(tid, type, stepStatus, stepId, prompt, artifact) ==
  [taskId |-> tid, type |-> type, status |-> stepStatus, stepId |-> stepId,
   prompt |-> prompt, artifact |-> artifact]

\* Events of task t1: every event type of the union, with and without the
\* optional fields; "unknown" stands for a type outside the union.
EventsT1 ==
  { Event("t1", "task_queued", "", "", p, "") : p \in {"", "pr"} }
  \cup { Event("t1", "task_started", "", "", "", "") }
  \cup { Event("t1", "step_progress", s, "s1", "", "") :
           s \in {"in-progress", "completed", "failed"} }
  \cup { Event("t1", "step_progress", "pending", "", "", "") }
  \cup { Event("t1", "output", "", "", "", "") }
  \cup { Event("t1", "artifact", "", "", "", a) : a \in Artifacts }
  \cup { Event("t1", ty, "", "", "", "") :
           ty \in {"task_completed", "task_failed", "task_cancelled", "unknown"} }

EventsT2 ==
  { Event("t2", "task_started", "", "", "", ""),
    Event("t2", "artifact", "", "", "", "a1") }

Events == EventsT1 \cup EventsT2

\* The events used where the subscription lifecycle, not the merge, is studied.
HookEvents ==
  { Event("t1", "artifact", "", "", "", "a1"),
    Event("t2", "task_completed", "", "", "", "") }

(***************************************************************************)
(* TaskExecution records, reduced to the fields the merge decides.         *)
(* artifacts is [def |-> FALSE] for undefined, else the list in items.     *)
(***************************************************************************)
NoArtifacts == [def |-> FALSE, items |-> <<>>]
ArtifactList(items) == [def |-> TRUE, items |-> items]

Task(status, stepId, sandboxId, prompt, artifacts) ==
  [status |-> status, stepId |-> stepId, sandboxId |-> sandboxId,
   prompt |-> prompt, artifacts |-> artifacts]

\* a || b on strings: the empty string is falsy
OrStr(a, b) == IF a # "" THEN a ELSE b

\* mapTaskEventToTaskExecution: the partial record built from one event.
\* base sets stepId, sandboxId and prompt to ''; each case adds its fields.
mapTaskEventToTaskExecution(event) ==
  LET base == Task("pending", "", "", "", NoArtifacts) IN
  CASE event.type = "task_queued" ->
         [base EXCEPT !.status = "queued", !.prompt = OrStr(event.prompt, "")]
    [] event.type = "task_started" ->
         [base EXCEPT !.status = "running"]
    [] event.type = "step_progress" ->
         [base EXCEPT !.status = IF event.status = "completed" THEN "completed"
                                 ELSE IF event.status = "failed" THEN "failed"
                                 ELSE "running",
                      !.stepId = OrStr(event.stepId, "")]
    [] event.type = "output" ->
         [base EXCEPT !.status = "running", !.stepId = OrStr(event.stepId, "")]
    [] event.type = "artifact" ->
         [base EXCEPT !.status = "running",
                      !.artifacts = ArtifactList(<<event.artifact>>)]
    [] event.type = "task_completed" -> [base EXCEPT !.status = "completed"]
    [] event.type = "task_failed" -> [base EXCEPT !.status = "failed"]
    [] event.type = "task_cancelled" -> [base EXCEPT !.status = "cancelled"]
    [] OTHER -> base

\* The artifacts of the merged record (part_012 lines 156-158).
MergeArtifactsDropExisting(event, hasExisting, existing, partialTask) ==
  IF event.type = "artifact" THEN partialTask.artifacts
  ELSE IF hasExisting /\ existing.artifacts.def THEN existing.artifacts
  ELSE partialTask.artifacts

MergeArtifacts(event, hasExisting, existing, partialTask) ==
  IF event.type = "artifact"
  THEN ArtifactList((IF hasExisting THEN existing.artifacts.items ELSE <<>>)
                    \o partialTask.artifacts.items)
  ELSE IF hasExisting /\ existing.artifacts.def THEN existing.artifacts
  ELSE partialTask.artifacts

\* The merged TaskExecution (part_012 lines 147-159).  The object literal
\* lists stepId, sandboxId, prompt and status first, then spreads existing,
\* then spreads partialTask: partialTask always carries those four keys, so
\* its values are the ones that remain.
MergeTask(event, hasExisting, existing) ==
  LET partialTask == mapTaskEventToTaskExecution(event) IN
  Task(partialTask.status, partialTask.stepId, partialTask.sandboxId,
       partialTask.prompt,
       MergeArtifacts(event, hasExisting, existing, partialTask))

\* setTasksMap(prev => ...) of onEvent
MergeIntoMap(map, event) ==
  LET tid == event.taskId
      hasExisting == tid \in DOMAIN map
      existing == IF hasExisting THEN map[tid] ELSE Task("", "", "", "", NoArtifacts)
      merged == MergeTask(event, hasExisting, existing)
  IN [x \in (DOMAIN map) \cup {tid} |-> IF x = tid THEN merged ELSE map[x]]

EmptyMap == [x \in {} |-> Task("", "", "", "", NoArtifacts)]

\* What listTaskHistory may answer: no task, or task t1 as the server holds it.
ServerHistories ==
  { EmptyMap,
    [x \in {"t1"} |-> Task("completed", "s1", "sb1", "pr", NoArtifacts)],
    [x \in {"t1"} |-> Task("running", "s1", "sb1", "pr", ArtifactList(<<"a2">>))] }

(***************************************************************************)
(* useRealtimeTaskProgress: the subscription lifecycle.                    *)
(***************************************************************************)
SubIds == 1..MaxSubs
NoSub == [pc |-> "none", stateL |-> FALSE, evCb |-> FALSE, proj |-> ""]
Mounted == phase = "mounted"
FreeSub == \E i \in SubIds : subs[i].pc = "none"
NextSub == CHOOSE i \in SubIds : subs[i].pc = "none" /\ \A j \in SubIds : j < i => subs[j].pc # "none"

\* Calling the function held in unsubscribeRef.current: stateUnsubscribe()
\* and the task unsubscribe of the subscribe() call that stored it.
CallUnsubscribe(ss, ref) ==
  IF ref # 0 THEN [ss EXCEPT ![ref].stateL = FALSE, ![ref].evCb = FALSE] ELSE ss

\* unsubscribe() (part_014 lines 791-798): the subscriptions left registered.
Unsubscribe(ss, ref) == CallUnsubscribe(ss, ref)

\* subscribe() up to its await (lines 733-757), as call number i: the
\* connection-state listener is registered before the await, the task
\* callback is registered by subscribeToTask once it resolves.
SubscribeStart(ss, i, proj) ==
  [ss EXCEPT ![i] = [pc |-> "awaiting", stateL |-> connApi, evCb |-> FALSE,
                     proj |-> proj]]

\* The effect of lines 801-804 re-running while mounted: cleanup, then
\* subscribe() with the current options.
HookEffect(enabled, proj) ==
  /\ unsubscribeRef' = 0
  /\ isConnected' = FALSE
  /\ IF enabled
     THEN /\ FreeSub
          /\ subs' = SubscribeStart(Unsubscribe(subs, unsubscribeRef), NextSub, proj)
          /\ connectionState' = "connecting"
          /\ hookError' = FALSE
     ELSE /\ subs' = Unsubscribe(subs, unsubscribeRef)
          /\ connectionState' = "disconnected"
          /\ UNCHANGED hookError

hookVars == <<isConnected, connectionState, hookError, unsubscribeRef, subs>>

(***************************************************************************)
(* EnhancedTaskHistory                                                     *)
(***************************************************************************)
\* Mount: the hook's effect calls subscribe(), which returns at once since
\* enabled is false until the first fetch; the fetch effect calls
\* fetchInitialTasks (lines 169-175).
Mount ==
  /\ phase = "init"
  /\ phase' = "mounted"
  /\ loading' = TRUE
  /\ fetchError' = FALSE
  /\ listPending' = listPending + 1
  /\ listCalls' = listCalls + 1
  /\ UNCHANGED <<projectId, initialTasksLoaded, tasksMap, hookVars, connApi,
                 delivered, onEventLog>>
  /\ UNCHANGED notRt

\* listTaskHistory resolves (lines 177-183, 187-189).  The first success
\* turns enabled to true, which re-runs the hook's effect.
FetchResolve(history) ==
  /\ listPending > 0
  /\ listPending' = listPending - 1
  /\ IF Mounted
     THEN /\ tasksMap' = history
          /\ initialTasksLoaded' = TRUE
          /\ loading' = FALSE
          /\ IF ~initialTasksLoaded
             THEN HookEffect(TRUE, projectId)
             ELSE UNCHANGED hookVars
     ELSE UNCHANGED <<tasksMap, initialTasksLoaded, loading, hookVars>>
  /\ UNCHANGED <<phase, projectId, fetchError, connApi, delivered, onEventLog>>
  /\ UNCHANGED listCalls
  /\ UNCHANGED notRt

\* fetchInitialTasks calling itself again from its catch block.
FetchRejectRetry ==
  /\ listPending > 0
  /\ IF Mounted /\ listCalls < MaxCalls
     THEN /\ fetchError' = FALSE /\ loading' = TRUE
          /\ listCalls' = listCalls + 1
          /\ UNCHANGED listPending
     ELSE /\ listPending' = listPending - 1
          /\ UNCHANGED <<fetchError, loading, listCalls>>
  /\ UNCHANGED <<phase, projectId, initialTasksLoaded, tasksMap, hookVars,
                 connApi, delivered, onEventLog>>
  /\ UNCHANGED notRt

\* listTaskHistory rejects (lines 184-189): the message is shown, nothing
\* is called again.
FetchReject ==
  /\ listPending > 0
  /\ listPending' = listPending - 1
  /\ IF Mounted
     THEN fetchError' = TRUE /\ loading' = FALSE
     ELSE UNCHANGED <<fetchError, loading>>
  /\ UNCHANGED <<phase, projectId, initialTasksLoaded, tasksMap, hookVars,
                 connApi, delivered, onEventLog>>
  /\ UNCHANGED listCalls
  /\ UNCHANGED notRt

\* The refresh button (lines 227-229, 288): disabled while loading.
HandleRefresh ==
  /\ Mounted
  /\ ~loading
  /\ listCalls < MaxCalls
  /\ loading' = TRUE
  /\ fetchError' = FALSE
  /\ listPending' = listPending + 1
  /\ listCalls' = listCalls + 1
  /\ UNCHANGED <<phase, projectId, initialTasksLoaded, tasksMap, hookVars,
                 connApi, delivered, onEventLog>>
  /\ UNCHANGED notRt

\* The parent passes another projectId: fetchInitialTasks and subscribe are
\* rebuilt (their dependency lists hold projectId) and both effects re-run.
ChangeProject(p) ==
  /\ Mounted
  /\ p # projectId
  /\ listCalls < MaxCalls
  /\ projectId' = p
  /\ loading' = TRUE
  /\ fetchError' = FALSE
  /\ listPending' = listPending + 1
  /\ listCalls' = listCalls + 1
  /\ HookEffect(initialTasksLoaded, p)
  /\ UNCHANGED <<phase, initialTasksLoaded, tasksMap, connApi, delivered,
                 onEventLog>>
  /\ UNCHANGED notRt

\* Unmount: the effect cleanup calls unsubscribe() (lines 791-798, 803).
Unmount ==
  /\ Mounted
  /\ phase' = "unmounted"
  /\ subs' = Unsubscribe(subs, unsubscribeRef)
  /\ unsubscribeRef' = 0
  /\ isConnected' = FALSE
  /\ connectionState' = "disconnected"
  /\ UNCHANGED <<projectId, initialTasksLoaded, loading, fetchError, tasksMap,
                 listPending, hookError, connApi, delivered, onEventLog>>
  /\ UNCHANGED listCalls
  /\ UNCHANGED notRt

\* subscribeToTask resolves: the continuation of subscribe() (lines 757-782)
\* stores the combined unsubscribe and reports 'connected'.  A state setter
\* of an unmounted component changes nothing.
SubscribeResolve(i) ==
  /\ subs[i].pc = "awaiting"
  /\ subs' = [subs EXCEPT ![i].pc = "resolved", ![i].evCb = TRUE]
  /\ unsubscribeRef' = i
  /\ IF Mounted
     THEN isConnected' = TRUE /\ connectionState' = "connected"
     ELSE UNCHANGED <<isConnected, connectionState>>
  /\ UNCHANGED <<phase, projectId, initialTasksLoaded, loading, fetchError,
                 tasksMap, listPending, hookError, connApi, delivered,
                 onEventLog>>
  /\ UNCHANGED listCalls
  /\ UNCHANGED notRt

\* subscribeToTask rejects: the catch block (lines 783-788).
SubscribeReject(i) ==
  /\ subs[i].pc = "awaiting"
  /\ subs' = [subs EXCEPT ![i].pc = "rejected"]
  /\ IF Mounted
     THEN hookError' = TRUE /\ connectionState' = "disconnected"
          /\ isConnected' = FALSE
     ELSE UNCHANGED <<hookError, connectionState, isConnected>>
  /\ UNCHANGED <<phase, projectId, initialTasksLoaded, loading, fetchError,
                 tasksMap, listPending, unsubscribeRef, connApi, delivered,
                 onEventLog>>
  /\ UNCHANGED listCalls
  /\ UNCHANGED notRt

\* The listener of call i with a 'disconnected' branch that leaves
\* isConnected as it is.
ConnEventKeepsFlag(i, type) ==
  /\ subs[i].stateL
  /\ Mounted
  /\ CASE type = "connected" ->
            isConnected' = TRUE /\ connectionState' = "connected"
            /\ UNCHANGED hookError
       [] type = "disconnected" ->
            connectionState' = "disconnected"
            /\ UNCHANGED <<isConnected, hookError>>
       [] OTHER ->
            hookError' = TRUE /\ UNCHANGED <<isConnected, connectionState>>
  /\ UNCHANGED <<phase, projectId, initialTasksLoaded, loading, fetchError,
                 tasksMap, listPending, unsubscribeRef, subs, connApi,
                 delivered, onEventLog>>
  /\ UNCHANGED listCalls
  /\ UNCHANGED notRt

\* A connection-state event reaches the listener of call i (lines 744-754).
ConnEvent(i, type) ==
  /\ subs[i].stateL
  /\ Mounted
  /\ CASE type = "connected" ->
            isConnected' = TRUE /\ connectionState' = "connected"
            /\ UNCHANGED hookError
       [] type = "disconnected" ->
            isConnected' = FALSE /\ connectionState' = "disconnected"
            /\ UNCHANGED hookError
       [] OTHER ->
            hookError' = TRUE /\ UNCHANGED <<isConnected, connectionState>>
  /\ UNCHANGED <<phase, projectId, initialTasksLoaded, loading, fetchError,
                 tasksMap, listPending, unsubscribeRef, subs, connApi,
                 delivered, onEventLog>>
  /\ UNCHANGED listCalls
  /\ UNCHANGED notRt

\* The task callback handed to subscribeToTask (lines 760-769): the calls it
\* makes to options.onEvent for one event.
TaskCallbackSkipsTerminal(event) ==
  IF event.type \in {"task_completed", "task_failed"} THEN <<>> ELSE <<event>>

TaskCallback(event) == <<event>>

RECURSIVE ApplyOnEvent(_, _)
ApplyOnEvent(map, calls) ==
  IF calls = <<>> THEN map
  ELSE ApplyOnEvent(MergeIntoMap(map, Head(calls)), Tail(calls))

\* The server pushes an event to the task callback registered by call i.
DeliverEvent(i, event) ==
  /\ subs[i].evCb
  /\ Len(delivered) < MaxEvents
  /\ delivered' = Append(delivered, event)
  /\ onEventLog' = onEventLog \o TaskCallback(event)
  /\ IF Mounted
     THEN tasksMap' = ApplyOnEvent(tasksMap, TaskCallback(event))
     ELSE UNCHANGED tasksMap
  /\ UNCHANGED <<phase, projectId, initialTasksLoaded, loading, fetchError,
                 listPending, hookVars, connApi>>
  /\ UNCHANGED listCalls
  /\ UNCHANGED notRt

(***************************************************************************)
(* authenticatedFetch and handleUnauthorized.  Two copies exist, the one   *)
(* of api-helpers.ts and the older one of part_005; they differ in the     *)
(* localStorage keys they use.                                             *)
(***************************************************************************)
StatusCodes == {200, 204, 401, 403, 404, 500}
SdkKeys == {"aintandem_token", "aintandem_refresh_token"}
LegacyKeys == {"authToken", "authUser"}

\* The key read for the Authorization header.
TokenKey(impl) == IF impl = "api-helpers" THEN "aintandem_token" ELSE "authToken"

\* handleUnauthorized: the keys removed from localStorage.
ClearedKeys(impl) == IF impl = "api-helpers" THEN SdkKeys ELSE LegacyKeys

\* electronApiProxy: status: proxyResponse.statusCode || 200.  statusCode 0
\* stands for a proxy answer without a statusCode.
ProxyStatus(statusCode) == IF statusCode = 0 THEN 200 ELSE statusCode

\* The test of authenticatedFetch on response.status.
IsUnauthorizedOnly401(status) == status = 401

IsUnauthorized(status) == status = 401 \/ status = 403

\* authenticatedFetch up to its await: the header is built, the request sent.
AuthenticatedFetchCall(impl) ==
  /\ authPc # "awaiting"
  /\ authImpl' = impl
  /\ authPc' = "awaiting"
  /\ authHeader' = (TokenKey(impl) \in storageKeys)
  /\ httpStatus' = 0
  /\ respStatus' = 0
  /\ UNCHANGED <<desktop, storageKeys, location>>
  /\ UNCHANGED notAuth

\* The service answers with statusCode; in the desktop shell the answer comes
\* through electronApiProxy.  Then the status test and handleUnauthorized.
AuthenticatedFetchResponse(statusCode) ==
  /\ authPc = "awaiting"
  /\ desktop \/ statusCode # 0
  /\ LET status == IF desktop THEN ProxyStatus(statusCode) ELSE statusCode IN
     /\ httpStatus' = statusCode
     /\ respStatus' = status
     /\ IF IsUnauthorized(status)
        THEN /\ storageKeys' = storageKeys \ ClearedKeys(authImpl)
             /\ location' = "/login"
        ELSE UNCHANGED <<storageKeys, location>>
  /\ authPc' = "done"
  /\ UNCHANGED <<authImpl, desktop, authHeader>>
  /\ UNCHANGED notAuth

\* The request fails without an HTTP response: the await throws.
AuthenticatedFetchReject ==
  /\ authPc = "awaiting"
  /\ authPc' = "rejected"
  /\ UNCHANGED <<authImpl, desktop, authHeader, storageKeys, location,
                 httpStatus, respStatus>>
  /\ UNCHANGED notAuth

\* LoginPage.handleSubmit with a successful login: the SDK stores its
\* tokens, then navigate(from).
LoginSubmit ==
  /\ location = "/login"
  /\ storageKeys' = storageKeys \cup SdkKeys
  /\ location' = "/"
  /\ UNCHANGED <<authImpl, desktop, authPc, authHeader, httpStatus, respStatus>>
  /\ UNCHANGED notAuth

AuthStart ==
  /\ authImpl = "api-helpers"
  /\ authPc = "idle"
  /\ authHeader = FALSE
  /\ location = "/"
  /\ httpStatus = 0
  /\ respStatus = 0

AuthIdle == AuthStart /\ desktop = FALSE /\ storageKeys = {}

(***************************************************************************)
(* Selection of organization, workspace and project.  A page uses one of   *)
(* two hooks: useAIBaseQueryState (part_013), whose selection lives in the *)
(* navigation store, or useAIBaseState (part_014), whose selection is      *)
(* local state.  null is written "".                                       *)
(***************************************************************************)
OrgIds == {"o1", "o2"}
WsIds == {"w1", "w2"}
ViewModes == {"hierarchy", "grid", "list", "tree"}

NavCall(op, arg) ==
  [op |-> op, arg |-> arg, prevOrg |-> selectedOrganization,
   prevWs |-> selectedWorkspace]

\* The navigation store's resetWorkspaceAndProject and resetProject.
ResetWorkspaceAndProject == selectedWorkspace' = "" /\ selectedProject' = ""

ResetProject == selectedProject' = ""

\* useAIBaseQueryState.handleSelectOrganization
QueryHandleSelectOrganization(orgId) ==
  /\ navHook = "query"
  /\ selectedOrganization' = orgId
  /\ IF orgId # selectedOrganization
     THEN ResetWorkspaceAndProject
     ELSE UNCHANGED <<selectedWorkspace, selectedProject>>
  /\ navLast' = NavCall("selectOrganization", orgId)
  /\ UNCHANGED <<navHook, viewMode>>
  /\ UNCHANGED notNav

\* useAIBaseQueryState.handleSelectWorkspace
QueryHandleSelectWorkspace(wsId) ==
  /\ navHook = "query"
  /\ selectedWorkspace' = wsId
  /\ IF wsId # selectedWorkspace
     THEN ResetProject
     ELSE UNCHANGED selectedProject
  /\ navLast' = NavCall("selectWorkspace", wsId)
  /\ UNCHANGED <<navHook, selectedOrganization, viewMode>>
  /\ UNCHANGED notNav

\* useAIBaseQueryState.handleSelectProject
QueryHandleSelectProject(id) ==
  /\ navHook = "query"
  /\ selectedProject' = id
  /\ navLast' = NavCall("selectProject", id)
  /\ UNCHANGED <<navHook, selectedOrganization, selectedWorkspace, viewMode>>
  /\ UNCHANGED notNav

\* useAIBaseQueryState.handleSetViewMode
QueryHandleSetViewMode(mode) ==
  /\ navHook = "query"
  /\ viewMode' = mode
  /\ navLast' = NavCall("setViewMode", mode)
  /\ UNCHANGED <<navHook, selectedOrganization, selectedWorkspace,
                 selectedProject>>
  /\ UNCHANGED notNav

\* useAIBaseState.handleSelectOrganization without its
\* setSelectedWorkspace(null): only the effect on selectedOrganization
\* (lines 583-591) is left to reset the workspace.
StateHandleSelectOrganizationByEffectOnly(orgId) ==
  /\ navHook = "state"
  /\ selectedOrganization' = orgId
  /\ IF orgId # selectedOrganization /\ orgId # "" /\ viewMode # "tree"
     THEN selectedWorkspace' = ""
     ELSE UNCHANGED selectedWorkspace
  /\ selectedProject' = ""
  /\ navLast' = NavCall("selectOrganization", orgId)
  /\ UNCHANGED <<navHook, viewMode>>
  /\ UNCHANGED notNav

\* useAIBaseState.handleSelectOrganization; the effect on selectedOrganization
\* that runs after it sets the workspace to null once more.
StateHandleSelectOrganization(orgId) ==
  /\ navHook = "state"
  /\ selectedOrganization' = orgId
  /\ selectedWorkspace' = ""
  /\ selectedProject' = ""
  /\ navLast' = NavCall("selectOrganization", orgId)
  /\ UNCHANGED <<navHook, viewMode>>
  /\ UNCHANGED notNav

\* useAIBaseState.handleSelectWorkspace
StateHandleSelectWorkspace(wsId) ==
  /\ navHook = "state"
  /\ selectedWorkspace' = wsId
  /\ selectedProject' = ""
  /\ navLast' = NavCall("selectWorkspace", wsId)
  /\ UNCHANGED <<navHook, selectedOrganization, viewMode>>
  /\ UNCHANGED notNav

\* useAIBaseState.handleSelectProject
StateHandleSelectProject(id) ==
  /\ navHook = "state"
  /\ selectedProject' = id
  /\ navLast' = NavCall("selectProject", id)
  /\ UNCHANGED <<navHook, selectedOrganization, selectedWorkspace, viewMode>>
  /\ UNCHANGED notNav

\* useAIBaseState.handleSetViewMode, and the effect of lines 583-591 that
\* re-runs when viewMode changed: outside the tree view it resets the
\* workspace when an organization is selected.
StateHandleSetViewMode(mode) ==
  /\ navHook = "state"
  /\ mode \in ViewModes
  /\ viewMode' = mode
  /\ IF mode # viewMode /\ selectedOrganization # "" /\ mode # "tree"
     THEN selectedWorkspace' = ""
     ELSE UNCHANGED selectedWorkspace
  /\ navLast' = NavCall("setViewMode", mode)
  /\ UNCHANGED <<navHook, selectedOrganization, selectedProject>>
  /\ UNCHANGED notNav

NavStart ==
  /\ selectedOrganization = ""
  /\ selectedWorkspace = ""
  /\ selectedProject = ""
  /\ viewMode = "hierarchy"
  /\ navLast = [op |-> "none", arg |-> "", prevOrg |-> "", prevWs |-> ""]

NavIdle == NavStart /\ navHook = "query"

(***************************************************************************)
(* The create / update / delete handlers of useAIBaseQueryState, called    *)
(* from the views.  Each handler is an async function that awaits its      *)
(* remote calls one after the other; a rejected call is logged and         *)
(* rethrown, which ends the handler.  Of the remote service the model      *)
(* keeps the sandboxes; the service accepts or rejects every request.      *)
(***************************************************************************)
OpIds == 1..MaxOps
SandboxKinds == {"createSandbox", "destroySandbox", "recreateSandbox"}
WorkflowArgs == {"", "none", "wf1"}

\* The remote calls each handler makes when every call resolves, in order.
handleCreateOrganization == <<"createOrganization">>

handleCreateWorkspace(organizationId) ==
  IF organizationId = "" THEN <<>> ELSE <<"createWorkspace">>

handleCreateProject(workspaceId, workflowId) ==
  IF workspaceId = "" THEN <<>>
  ELSE <<"createProject">>
       \o (IF workflowId # "" /\ workflowId # "none"
           THEN <<"updateProject">> ELSE <<>>)

handleCreateSandbox == <<"createSandbox">>

handleDestroySandboxDeleteOnly == <<"deleteSandbox">>

handleDestroySandbox == <<"stopSandbox", "deleteSandbox">>

handleRecreateSandbox == <<"stopSandbox", "deleteSandbox", "createSandbox">>

handleDeleteOrganization == <<"deleteOrganization">>

handleDeleteWorkspace == <<"deleteWorkspace">>

handleDeleteProject == <<"deleteProject">>

handleMoveProject == <<"moveProject">>

handleChangeWorkflow == <<"updateProject">>

HandlerCalls(kind, target, workflowId) ==
  CASE kind = "createOrganization" -> handleCreateOrganization
    [] kind = "createWorkspace" -> handleCreateWorkspace(target)
    [] kind = "createProject" -> handleCreateProject(target, workflowId)
    [] kind = "createSandbox" -> handleCreateSandbox
    [] kind = "destroySandbox" -> handleDestroySandbox
    [] kind = "recreateSandbox" -> handleRecreateSandbox
    [] kind = "deleteOrganization" -> handleDeleteOrganization
    [] kind = "deleteWorkspace" -> handleDeleteWorkspace
    [] kind = "deleteProject" -> handleDeleteProject
    [] kind = "moveProject" -> handleMoveProject
    [] kind = "changeWorkflow" -> handleChangeWorkflow

\* The handlers that await invalidateQueries on the project lists.
AwaitsRefetch(kind) == kind \in SandboxKinds \cup {"changeWorkflow"}

\* The calls the views make to the handlers that are not sandbox handlers:
\* <<handler, first argument, workflowId>>.
HandlerArgs ==
  {<<"createOrganization", "", "">>}
  \cup {<<"createWorkspace", o, "">> : o \in {"", "o1"}}
  \cup {<<"createProject", "", "wf1">>}
  \cup {<<"createProject", "w1", wf>> : wf \in WorkflowArgs}
  \cup {<<"deleteOrganization", "o1", "">>, <<"deleteWorkspace", "w1", "">>,
        <<"deleteProject", "p1", "">>, <<"moveProject", "p1", "">>}
  \cup {<<"changeWorkflow", "p1", wf>> : wf \in WorkflowArgs}

NoOp == [kind |-> "none", target |-> "", sandboxId |-> 0, workflowId |-> "",
         sel |-> "", issued |-> <<>>, results |-> <<>>, pc |-> "none"]
FreeOp == \E i \in OpIds : ops[i].pc = "none"
NextOp == CHOOSE i \in OpIds : ops[i].pc = "none" /\ \A j \in OpIds : j < i => ops[j].pc # "none"

SandboxesOf(p) == {s \in sandboxes : s.project = p}

\* The handler starts: it runs up to its first await.
Started(kind, target, sandboxId, workflowId, sel) ==
  LET plan == HandlerCalls(kind, target, workflowId) IN
  [kind |-> kind, target |-> target, sandboxId |-> sandboxId,
   workflowId |-> workflowId, sel |-> sel,
   issued |-> IF plan = <<>> THEN <<>> ELSE <<plan[1]>>,
   results |-> <<>>,
   pc |-> IF plan = <<>> THEN "done" ELSE "awaiting"]

\* A view calls a handler other than the sandbox handlers.  The delete
\* handlers close over the selection of the render they were made in.
CallHandler(kind, target, workflowId) ==
  /\ FreeOp
  /\ ops' = [ops EXCEPT ![NextOp] =
       Started(kind, target, 0, workflowId,
               IF kind = "deleteOrganization" THEN selectedOrganization
               ELSE IF kind = "deleteWorkspace" THEN selectedWorkspace
               ELSE "")]
  /\ UNCHANGED <<sandboxes, nextSandbox, projectsCache, cardAwaits, cardBusy>>
  /\ UNCHANGED notCrud

\* ProjectCard.handleCreateSandbox / handleDestroySandbox /
\* handleRecreateSandbox: the button is there according to the cached
\* project.sandboxId and enabled according to the card's own flag; the flag
\* stays set only while the card has a promise to await.
CardSandboxClick(kind, p) ==
  /\ FreeOp
  /\ kind \notin cardBusy[p]
  /\ IF kind = "createSandbox" THEN projectsCache[p] = 0 ELSE projectsCache[p] # 0
  /\ ops' = [ops EXCEPT ![NextOp] = Started(kind, p, projectsCache[p], "", "")]
  /\ cardBusy' = IF cardAwaits THEN [cardBusy EXCEPT ![p] = @ \cup {kind}]
                 ELSE cardBusy
  /\ UNCHANGED <<sandboxes, nextSandbox, projectsCache, cardAwaits>>
  /\ UNCHANGED notCrud

\* Whether the service can answer the call with success.
ServiceAccepts(call, op) ==
  CASE call \in {"stopSandbox", "deleteSandbox"} ->
         \E s \in sandboxes : s.id = op.sandboxId
    [] call = "createSandbox" -> nextSandbox <= MaxSandboxes
    [] OTHER -> TRUE

\* The sandboxes of the service after it performed the call.
ServiceApply(call, op) ==
  CASE call = "createSandbox" ->
         sandboxes \cup {[id |-> nextSandbox, project |-> op.target]}
    [] call = "deleteSandbox" -> {s \in sandboxes : s.id # op.sandboxId}
    [] OTHER -> sandboxes

\* What a refetch of the project list can bring: for each project the id of
\* a sandbox the service holds for it, 0 when it holds none.
CacheViews ==
  {f \in [ProjectIds -> 0..MaxSandboxes] :
     \A p \in ProjectIds :
       IF SandboxesOf(p) = {} THEN f[p] = 0
       ELSE \E s \in SandboxesOf(p) : f[p] = s.id}

\* The finally block of the ProjectCard handler that awaited the promise.
Release(op) ==
  IF cardAwaits /\ op.kind \in SandboxKinds
  THEN [cardBusy EXCEPT ![op.target] = @ \ {op.kind}]
  ELSE cardBusy

\* The call in flight of handler call i resolves: the handler goes on to its
\* next call, or to the awaited invalidation, or returns.  After their call
\* the delete handlers of organization and workspace reset the selection
\* when the deleted item was the one selected.
CallResolves(i) ==
  LET op == ops[i]
      call == op.issued[Len(op.issued)]
      plan == HandlerCalls(op.kind, op.target, op.workflowId)
      more == Len(op.issued) < Len(plan)
  IN
  /\ op.pc = "awaiting"
  /\ ServiceAccepts(call, op)
  /\ sandboxes' = ServiceApply(call, op)
  /\ nextSandbox' = IF call = "createSandbox" THEN nextSandbox + 1 ELSE nextSandbox
  /\ IF more
     THEN /\ ops' = [ops EXCEPT ![i].issued = Append(@, plan[Len(op.issued) + 1]),
                               ![i].results = Append(@, "ok")]
          /\ UNCHANGED cardBusy
     ELSE IF AwaitsRefetch(op.kind)
     THEN /\ ops' = [ops EXCEPT ![i].pc = "refetching",
                               ![i].results = Append(@, "ok")]
          /\ UNCHANGED cardBusy
     ELSE /\ ops' = [ops EXCEPT ![i].pc = "done", ![i].results = Append(@, "ok")]
          /\ cardBusy' = Release(op)
  /\ IF op.kind = "deleteOrganization" /\ op.sel = op.target
     THEN selectedOrganization' = "" /\ ResetWorkspaceAndProject
     ELSE IF op.kind = "deleteWorkspace" /\ op.sel = op.target
     THEN selectedWorkspace' = "" /\ ResetProject
          /\ UNCHANGED selectedOrganization
     ELSE UNCHANGED <<selectedOrganization, selectedWorkspace, selectedProject>>
  /\ UNCHANGED <<projectsCache, cardAwaits, navHook, viewMode, navLast>>
  /\ UNCHANGED <<rtVars, authVars, pollVars, errVars, delVars, layVars, wfVars, edVars, dlgVars, ctxVars, edgeVars>>

\* The call in flight rejects and the handler goes on to its next call as if
\* it had resolved.
CallRejectsSwallowed(i) ==
  LET op == ops[i]
      plan == HandlerCalls(op.kind, op.target, op.workflowId)
  IN
  /\ op.pc = "awaiting"
  /\ IF Len(op.issued) < Len(plan)
     THEN /\ ops' = [ops EXCEPT ![i].issued = Append(@, plan[Len(op.issued) + 1]),
                               ![i].results = Append(@, "failed")]
          /\ UNCHANGED cardBusy
     ELSE /\ ops' = [ops EXCEPT ![i].pc = "failed",
                               ![i].results = Append(@, "failed")]
          /\ cardBusy' = Release(op)
  /\ UNCHANGED <<sandboxes, nextSandbox, projectsCache, cardAwaits>>
  /\ UNCHANGED notCrud

\* The call in flight rejects: the catch block logs and rethrows, no further
\* call is made.
CallRejects(i) ==
  /\ ops[i].pc = "awaiting"
  /\ ops' = [ops EXCEPT ![i].pc = "failed", ![i].results = Append(@, "failed")]
  /\ cardBusy' = Release(ops[i])
  /\ UNCHANGED <<sandboxes, nextSandbox, projectsCache, cardAwaits>>
  /\ UNCHANGED notCrud

\* The refetch awaited by invalidateQueries settles; a failed refetch leaves
\* the cached list as it was and the handler returns all the same.
RefetchSettles(i, ok) ==
  /\ ops[i].pc = "refetching"
  /\ IF ok
     THEN \E f \in CacheViews : projectsCache' = f
     ELSE UNCHANGED projectsCache
  /\ ops' = [ops EXCEPT ![i].pc = "done"]
  /\ cardBusy' = Release(ops[i])
  /\ UNCHANGED <<sandboxes, nextSandbox, cardAwaits>>
  /\ UNCHANGED notCrud

\* The project list query refetches in the background (the create and delete
\* mutations invalidate it in onSuccess without awaiting).
ProjectsRefetched ==
  /\ \E f \in CacheViews : projectsCache' = f
  /\ projectsCache' # projectsCache
  /\ UNCHANGED <<sandboxes, nextSandbox, ops, cardAwaits, cardBusy>>
  /\ UNCHANGED notCrud

CrudStart ==
  /\ ops = [i \in OpIds |-> NoOp]
  /\ cardBusy = [p \in ProjectIds |-> {}]

\* Project p1 already has its sandbox and the project list shows it.
OneSandboxYet ==
  /\ sandboxes = {[id |-> 1, project |-> "p1"]}
  /\ nextSandbox = 2
  /\ projectsCache = [p \in ProjectIds |-> IF p = "p1" THEN 1 ELSE 0]

CrudIdle == CrudStart /\ OneSandboxYet /\ cardAwaits = FALSE

(***************************************************************************)
(* TaskHistoryPanel: fetches the task history on mount, on a change of     *)
(* projectId, on the refresh button and every 5 seconds.                   *)
(***************************************************************************)
ThpMounted == thpPhase = "mounted"

\* fetchTasks up to its await (lines 201-206).
FetchTasksCall ==
  /\ thpCalls < MaxCalls
  /\ thpLoading' = TRUE
  /\ thpError' = FALSE
  /\ thpPending' = thpPending + 1
  /\ thpCalls' = thpCalls + 1

\* Mount: the effect of lines 216-221 calls fetchTasks and arms the timer.
ThpMount ==
  /\ thpPhase = "init"
  /\ thpPhase' = "mounted"
  /\ FetchTasksCall
  /\ thpInterval' = TRUE
  /\ UNCHANGED thpProjectId
  /\ UNCHANGED notPoll

\* The timer fires: setInterval(fetchTasks, 5000).
ThpTick ==
  /\ thpInterval
  /\ FetchTasksCall
  /\ UNCHANGED <<thpPhase, thpProjectId, thpInterval>>
  /\ UNCHANGED notPoll

\* The refresh button (line 254): disabled while loading.
ThpRefreshClick ==
  /\ ThpMounted
  /\ ~thpLoading
  /\ FetchTasksCall
  /\ UNCHANGED <<thpPhase, thpProjectId, thpInterval>>
  /\ UNCHANGED notPoll

\* listTaskHistory resolves (lines 207, 211-213).
ThpResolve ==
  /\ thpPending > 0
  /\ thpPending' = thpPending - 1
  /\ IF ThpMounted THEN thpLoading' = FALSE ELSE UNCHANGED thpLoading
  /\ UNCHANGED <<thpPhase, thpProjectId, thpError, thpCalls, thpInterval>>
  /\ UNCHANGED notPoll

\* listTaskHistory rejects (lines 208-213): the message is set, nothing is
\* called again.
ThpReject ==
  /\ thpPending > 0
  /\ thpPending' = thpPending - 1
  /\ IF ThpMounted
     THEN thpError' = TRUE /\ thpLoading' = FALSE
     ELSE UNCHANGED <<thpError, thpLoading>>
  /\ UNCHANGED <<thpPhase, thpProjectId, thpCalls, thpInterval>>
  /\ UNCHANGED notPoll

\* The parent passes another projectId: the effect's cleanup clears the
\* timer, the effect calls fetchTasks and arms a new one.
ThpChangeProject(p) ==
  /\ ThpMounted
  /\ p # thpProjectId
  /\ thpProjectId' = p
  /\ FetchTasksCall
  /\ thpInterval' = TRUE
  /\ UNCHANGED thpPhase
  /\ UNCHANGED notPoll

\* Unmount: clearInterval.
ThpUnmount ==
  /\ ThpMounted
  /\ thpPhase' = "unmounted"
  /\ thpInterval' = FALSE
  /\ UNCHANGED <<thpProjectId, thpLoading, thpError, thpPending, thpCalls>>
  /\ UNCHANGED notPoll

PollIdle ==
  /\ thpPhase = "init"
  /\ thpProjectId = "p1"
  /\ thpLoading = TRUE
  /\ thpError = FALSE
  /\ thpPending = 0
  /\ thpCalls = 0
  /\ thpInterval = FALSE

(***************************************************************************)
(* What the user is shown when a remote call rejects: AdvancedTaskDialog   *)
(* (part_011), the "Add Workspace" dialog of HierarchyView and the sandbox *)
(* configuration dialog of ProjectCard (hierarchy-view.tsx).               *)
(***************************************************************************)
Texts == {"", "x"}

Toast(from, level) == [from |-> from, level |-> level]

\* The parent opens the dialog.
AtdOpen ==
  /\ ~atd.open
  /\ atd' = [atd EXCEPT !.open = TRUE]
  /\ UNCHANGED <<wsDialog, aiConfig, toasts, consoleErrors>>
  /\ UNCHANGED notErr

\* The user types into the title and prompt fields.
AtdEdit(title, prompt) ==
  /\ atd.open
  /\ ~atd.isExecuting
  /\ atd' = [atd EXCEPT !.title = title, !.prompt = prompt]
  /\ UNCHANGED <<wsDialog, aiConfig, toasts, consoleErrors>>
  /\ UNCHANGED notErr

\* The Cancel button (line 300).
AtdCancel ==
  /\ atd.open
  /\ ~atd.isExecuting
  /\ atd' = [atd EXCEPT !.open = FALSE]
  /\ UNCHANGED <<wsDialog, aiConfig, toasts, consoleErrors>>
  /\ UNCHANGED notErr

\* AdvancedTaskDialog.handleExecute up to its await (lines 62-85).  Its
\* button is disabled while executing and while title or prompt is empty
\* (line 303), so the two validation branches are not taken from the dialog.
HandleExecute ==
  /\ atd.open
  /\ ~atd.isExecuting
  /\ atd.title # "" /\ atd.prompt # ""
  /\ atd' = IF atd.title = "" THEN [atd EXCEPT !.error = "Title is required"]
            ELSE IF atd.prompt = "" THEN [atd EXCEPT !.error = "Prompt is required"]
            ELSE [atd EXCEPT !.isExecuting = TRUE, !.error = "", !.pc = "awaiting"]
  /\ UNCHANGED <<wsDialog, aiConfig, toasts, consoleErrors>>
  /\ UNCHANGED notErr

\* executeAdhocTask resolves (lines 94-107, 111-113).
ExecuteResolves ==
  /\ atd.pc = "awaiting"
  /\ toasts' = toasts \cup {Toast("handleExecute", "success")}
  /\ atd' = [atd EXCEPT !.title = "", !.prompt = "", !.open = FALSE,
                        !.isExecuting = FALSE, !.pc = "resolved"]
  /\ UNCHANGED <<wsDialog, aiConfig, consoleErrors>>
  /\ UNCHANGED notErr

\* executeAdhocTask rejects (lines 108-113): the message is put on screen.
ExecuteRejects ==
  /\ atd.pc = "awaiting"
  /\ consoleErrors' = consoleErrors \cup {"Failed to execute task"}
  /\ atd' = [atd EXCEPT !.error = "Failed to execute task",
                        !.isExecuting = FALSE, !.pc = "rejected"]
  /\ UNCHANGED <<wsDialog, aiConfig, toasts>>
  /\ UNCHANGED notErr

\* The "Add" button opens the workspace dialog; the user fills the fields.
WsDialogOpen ==
  /\ ~wsDialog.open
  /\ wsDialog' = [wsDialog EXCEPT !.open = TRUE]
  /\ UNCHANGED <<atd, aiConfig, toasts, consoleErrors>>
  /\ UNCHANGED notErr

WsDialogEdit(name, path) ==
  /\ wsDialog.open
  /\ wsDialog.pc # "awaiting"
  /\ wsDialog' = [wsDialog EXCEPT !.name = name, !.path = path]
  /\ UNCHANGED <<atd, aiConfig, toasts, consoleErrors>>
  /\ UNCHANGED notErr

\* onSubmit of the workspace dialog up to its await (lines 140-142).
WsSubmit ==
  /\ wsDialog.open
  /\ wsDialog.pc # "awaiting"
  /\ wsDialog' = [wsDialog EXCEPT !.pc = "awaiting"]
  /\ UNCHANGED <<atd, aiConfig, toasts, consoleErrors>>
  /\ UNCHANGED notErr

\* onCreateWorkspace resolves (lines 143-147): fields reset, dialog closed.
WsSubmitResolves ==
  /\ wsDialog.pc = "awaiting"
  /\ wsDialog' = [open |-> FALSE, name |-> "", path |-> "", pc |-> "resolved"]
  /\ UNCHANGED <<atd, aiConfig, toasts, consoleErrors>>
  /\ UNCHANGED notErr

\* onCreateWorkspace rejects (lines 148-151): console.error, dialog kept.
WsSubmitRejects ==
  /\ wsDialog.pc = "awaiting"
  /\ wsDialog' = [wsDialog EXCEPT !.pc = "rejected"]
  /\ consoleErrors' = consoleErrors \cup {"Error creating workspace"}
  /\ UNCHANGED <<atd, aiConfig, toasts>>
  /\ UNCHANGED notErr

\* The menu item "Save Sandbox Configuration" (lines 563-566).
AiConfigOpen ==
  /\ ~aiConfig.open
  /\ aiConfig' = [aiConfig EXCEPT !.open = TRUE, !.intent = "save"]
  /\ UNCHANGED <<atd, wsDialog, toasts, consoleErrors>>
  /\ UNCHANGED notErr

\* The dialog is dismissed (lines 678-683).
AiConfigClose ==
  /\ aiConfig.open
  /\ aiConfig' = [aiConfig EXCEPT !.open = FALSE, !.intent = ""]
  /\ UNCHANGED <<atd, wsDialog, toasts, consoleErrors>>
  /\ UNCHANGED notErr

\* onSave with the 'save' intent (lines 685-696): handleSaveAiConfig runs up
\* to its await (lines 407-411), then the intent is reset and the dialog
\* closed without waiting for it.
AiConfigSave ==
  /\ aiConfig.open
  /\ aiConfig.intent = "save"
  /\ aiConfig.pc # "awaiting"
  /\ aiConfig' = [open |-> FALSE, intent |-> "", pc |-> "awaiting"]
  /\ UNCHANGED <<atd, wsDialog, toasts, consoleErrors>>
  /\ UNCHANGED notErr

\* updateProject resolves: handleSaveAiConfig returns.
SaveAiConfigResolves ==
  /\ aiConfig.pc = "awaiting"
  /\ aiConfig' = [aiConfig EXCEPT !.pc = "resolved"]
  /\ UNCHANGED <<atd, wsDialog, toasts, consoleErrors>>
  /\ UNCHANGED notErr

\* updateProject rejects (lines 412-414): console.error and nothing else.
SaveAiConfigRejects ==
  /\ aiConfig.pc = "awaiting"
  /\ aiConfig' = [aiConfig EXCEPT !.pc = "rejected"]
  /\ consoleErrors' = consoleErrors \cup {"Failed to save sandbox configuration"}
  /\ UNCHANGED <<atd, wsDialog, toasts>>
  /\ UNCHANGED notErr

ErrIdle ==
  /\ atd = [open |-> FALSE, title |-> "", prompt |-> "", isExecuting |-> FALSE,
            error |-> "", pc |-> "idle"]
  /\ wsDialog = [open |-> FALSE, name |-> "", path |-> "", pc |-> "idle"]
  /\ aiConfig = [open |-> FALSE, intent |-> "", pc |-> "idle"]
  /\ toasts = {}
  /\ consoleErrors = {}

(***************************************************************************)
(* Deleting a workflow (WorkflowsPage.handleDelete) and deleting a phase   *)
(* or a step in the VisualWorkflowEditor.  confirm() blocks the handler,   *)
(* so the dialog and its answer are part of the handler's step.            *)
(***************************************************************************)
WorkflowIds == {"wfA", "wfB", "tpl"}
IsTemplate(w) == w = "tpl"

Confirm(kind, workflow, phaseIndex, stepIndex, accepted) ==
  [kind |-> kind, workflow |-> workflow, phaseIndex |-> phaseIndex,
   stepIndex |-> stepIndex, accepted |-> accepted]

\* seq.filter((_, i) => i !== index), with indices from 1
RemoveAt(seq, index) ==
  [k \in 1..(Len(seq) - 1) |-> IF k < index THEN seq[k] ELSE seq[k + 1]]

\* WorkflowsPage.handleDelete up to its await (lines 74-85).
HandleDelete(w, accepted) ==
  /\ w \in workflows
  /\ IF IsTemplate(w)
     THEN /\ alerts' = alerts \cup {"Cannot delete built-in template workflows"}
          /\ UNCHANGED <<confirmLog, deleteRequests>>
     ELSE /\ Len(confirmLog) < MaxConfirms
          /\ confirmLog' = Append(confirmLog, Confirm("workflow", w, 0, 0, accepted))
          /\ deleteRequests' =
               IF accepted
               THEN Append(deleteRequests,
                           [id |-> w, snapshot |-> workflows, status |-> "pending"])
               ELSE deleteRequests
          /\ UNCHANGED alerts
  /\ UNCHANGED <<workflows, phases>>
  /\ UNCHANGED notDel

\* deleteWorkflow resolves (lines 86-87): the list the handler closed over,
\* without the workflow, becomes the page's list.
DeleteWorkflowResolves(k) ==
  /\ k \in DOMAIN deleteRequests
  /\ deleteRequests[k].status = "pending"
  /\ deleteRequests' = [deleteRequests EXCEPT ![k].status = "ok"]
  /\ workflows' = deleteRequests[k].snapshot \ {deleteRequests[k].id}
  /\ alerts' = alerts \cup {"Workflow deleted successfully"}
  /\ UNCHANGED <<phases, confirmLog>>
  /\ UNCHANGED notDel

\* deleteWorkflow rejects (lines 88-91).
DeleteWorkflowRejects(k) ==
  /\ k \in DOMAIN deleteRequests
  /\ deleteRequests[k].status = "pending"
  /\ deleteRequests' = [deleteRequests EXCEPT ![k].status = "failed"]
  /\ alerts' = alerts \cup {"Failed to delete workflow"}
  /\ UNCHANGED <<workflows, phases, confirmLog>>
  /\ UNCHANGED notDel

\* handleDeletePhase that removes the phase whatever the answer.
HandleDeletePhaseUnconfirmed(index, accepted) ==
  /\ index \in 1..Len(phases)
  /\ IF Len(phases) = 1
     THEN /\ alerts' = alerts \cup {"Cannot delete the last phase"}
          /\ UNCHANGED <<confirmLog, phases>>
     ELSE /\ Len(confirmLog) < MaxConfirms
          /\ confirmLog' = Append(confirmLog, Confirm("phase", "", index, 0, accepted))
          /\ phases' = RemoveAt(phases, index)
          /\ UNCHANGED alerts
  /\ UNCHANGED <<workflows, deleteRequests>>
  /\ UNCHANGED notDel

\* handleDeletePhase without the check for the last phase.
HandleDeletePhaseUnguarded(index, accepted) ==
  /\ index \in 1..Len(phases)
  /\ Len(confirmLog) < MaxConfirms
  /\ confirmLog' = Append(confirmLog, Confirm("phase", "", index, 0, accepted))
  /\ phases' = IF accepted THEN RemoveAt(phases, index) ELSE phases
  /\ UNCHANGED <<workflows, deleteRequests, alerts>>
  /\ UNCHANGED notDel

\* VisualWorkflowEditor.handleDeletePhase (lines 469-478)
HandleDeletePhase(index, accepted) ==
  /\ index \in 1..Len(phases)
  /\ IF Len(phases) = 1
     THEN /\ alerts' = alerts \cup {"Cannot delete the last phase"}
          /\ UNCHANGED <<confirmLog, phases>>
     ELSE /\ Len(confirmLog) < MaxConfirms
          /\ confirmLog' = Append(confirmLog, Confirm("phase", "", index, 0, accepted))
          /\ phases' = IF accepted THEN RemoveAt(phases, index) ELSE phases
          /\ UNCHANGED alerts
  /\ UNCHANGED <<workflows, deleteRequests>>
  /\ UNCHANGED notDel

\* handleDeleteStep without the check for the last step.
HandleDeleteStepUnguarded(phaseIndex, stepIndex, accepted) ==
  /\ phaseIndex \in 1..Len(phases)
  /\ stepIndex \in 1..Len(phases[phaseIndex])
  /\ Len(confirmLog) < MaxConfirms
  /\ confirmLog' = Append(confirmLog,
                          Confirm("step", "", phaseIndex, stepIndex, accepted))
  /\ phases' = IF accepted
               THEN [phases EXCEPT ![phaseIndex] = RemoveAt(@, stepIndex)]
               ELSE phases
  /\ UNCHANGED <<workflows, deleteRequests, alerts>>
  /\ UNCHANGED notDel

\* VisualWorkflowEditor.handleDeleteStep (lines 512-526)
HandleDeleteStep(phaseIndex, stepIndex, accepted) ==
  /\ phaseIndex \in 1..Len(phases)
  /\ stepIndex \in 1..Len(phases[phaseIndex])
  /\ IF Len(phases[phaseIndex]) = 1
     THEN /\ alerts' = alerts \cup {"Cannot delete the last step"}
          /\ UNCHANGED <<confirmLog, phases>>
     ELSE /\ Len(confirmLog) < MaxConfirms
          /\ confirmLog' = Append(confirmLog,
                                  Confirm("step", "", phaseIndex, stepIndex, accepted))
          /\ phases' = IF accepted
                       THEN [phases EXCEPT ![phaseIndex] = RemoveAt(@, stepIndex)]
                       ELSE phases
          /\ UNCHANGED alerts
  /\ UNCHANGED <<workflows, deleteRequests>>
  /\ UNCHANGED notDel

\* The phases, each the list of its step ids, of the workflows edited.
EditedWorkflows ==
  { << <<"s1", "s2">>, <<"s3">> >>,
    << <<"s1">>, <<"s2", "s3">>, <<"s4">> >> }

DelStart ==
  /\ workflows = WorkflowIds
  /\ deleteRequests = <<>>
  /\ alerts = {}
  /\ confirmLog = <<>>

DelIdle == DelStart /\ phases = << <<"s1", "s2">>, <<"s3">> >>

(***************************************************************************)
(* VisualWorkflowEditor: the nodes built from the phases (elements) and    *)
(* their layout (layoutNodes).  A node id is `phase-<id>` or `step-<id>`;  *)
(* it is kept as the pair of its prefix (kind) and the id.                 *)
(***************************************************************************)
LayPhaseIds == {"a", "b"}
LayStepIds == {"s", "t"}

RECURSIVE SeqsUpTo(_, _)
SeqsUpTo(S, n) ==
  IF n = 0 THEN {<<>>}
  ELSE LET shorter == SeqsUpTo(S, n - 1)
       IN shorter \cup {Append(q, x) : q \in {r \in shorter : Len(r) = n - 1}, x \in S}

\* The phase lists the parent may pass: the ids come from the phase and step
\* dialogs and from the stored workflow, and nothing keeps them distinct.
LayPhase ==
  {[id |-> p, steps |-> st] : p \in LayPhaseIds, st \in SeqsUpTo(LayStepIds, MaxSteps)}
LayPhaseLists == SeqsUpTo(LayPhase, MaxPhases)

Node(kind, id, x, y, height) == [kind |-> kind, id |-> id, x |-> x, y |-> y, height |-> height]

\* elements (lines 219-257): for each phase its node, then the nodes of its steps.
RECURSIVE ElementNodes(_, _)
ElementNodes(phs, phaseIndex) ==
  IF phaseIndex >= Len(phs) THEN <<>>
  ELSE LET ph == phs[phaseIndex + 1]
           phaseX == 100
           phaseY == 250 * phaseIndex
           stepNodes == [k \in 1..Len(ph.steps) |->
                          Node("step", ph.steps[k], phaseX + 20,
                               phaseY + 120 + (k - 1) * 90, 80)]
       IN <<Node("phase", ph.id, phaseX, phaseY, 100)>> \o stepNodes
          \o ElementNodes(phs, phaseIndex + 1)

\* The constants of layoutNodes (lines 375-379).
phaseToFirstStepSpacing == 200
phaseSpacing == 400
stepSpacing == 200
phaseStartX == 50
phaseStartY == 50

\* phaseNodeMap[phaseId] (lines 388-393): the last phase node with that id.
HasPhaseNode(nodes, id) == \E k \in 1..Len(nodes) : nodes[k].kind = "phase" /\ nodes[k].id = id
PhaseNodeOf(nodes, id) ==
  nodes[CHOOSE k \in 1..Len(nodes) :
          /\ nodes[k].kind = "phase" /\ nodes[k].id = id
          /\ \A m \in 1..Len(nodes) : (nodes[m].kind = "phase" /\ nodes[m].id = id) => m <= k]

\* nodes.find(n => n.id === `step-${step.id}`) (line 414): the first such node.
HasStepNode(nodes, id) == \E k \in 1..Len(nodes) : nodes[k].kind = "step" /\ nodes[k].id = id
StepNodeOf(nodes, id) ==
  nodes[CHOOSE k \in 1..Len(nodes) :
          /\ nodes[k].kind = "step" /\ nodes[k].id = id
          /\ \A m \in 1..Len(nodes) : (nodes[m].kind = "step" /\ nodes[m].id = id) => k <= m]

\* phaseNode.height || 100
HeightOr100(node) == IF node.height = 0 THEN 100 ELSE node.height

\* The steps of one phase positioned below it (lines 413-424).
RECURSIVE PositionedSteps(_, _, _, _, _)
PositionedSteps(nodes, steps, stepIndex, newX, phaseNode) ==
  IF stepIndex >= Len(steps) THEN <<>>
  ELSE LET id == steps[stepIndex + 1]
           here == IF HasStepNode(nodes, id)
                   THEN <<[StepNodeOf(nodes, id) EXCEPT
                             !.x = newX,
                             !.y = phaseStartY + HeightOr100(phaseNode)
                                   + phaseToFirstStepSpacing + stepIndex * stepSpacing]>>
                   ELSE <<>>
       IN here \o PositionedSteps(nodes, steps, stepIndex + 1, newX, phaseNode)

\* The column of one phase: the phase at the top, its steps below it.
PositionedPhase(nodes, ph, index) ==
  LET newX == phaseStartX + index * phaseSpacing IN
  <<[PhaseNodeOf(nodes, ph.id) EXCEPT !.x = newX, !.y = phaseStartY]>>
  \o PositionedSteps(nodes, ph.steps, 0, newX, PhaseNodeOf(nodes, ph.id))

\* The same column placed by the position of the phase node in `nodes`
\* instead of the index of the phase in `phases`.
RECURSIVE layoutFromByNodeOrder(_, _, _)
layoutFromByNodeOrder(nodes, phs, index) ==
  IF index >= Len(phs) THEN <<>>
  ELSE LET ph == phs[index + 1]
           at == CHOOSE k \in 1..Len(nodes) : nodes[k] = PhaseNodeOf(nodes, ph.id)
       IN PositionedPhase(nodes, ph, at - 1) \o layoutFromByNodeOrder(nodes, phs, index + 1)

\* phases.forEach((originalPhase, index) => ...) (lines 397-426), from
\* `index` on; a phase without a node is skipped.
RECURSIVE layoutFrom(_, _, _)
layoutFrom(nodes, phs, index) ==
  IF index >= Len(phs) THEN <<>>
  ELSE LET ph == phs[index + 1]
           here == IF HasPhaseNode(nodes, ph.id)
                   THEN PositionedPhase(nodes, ph, index)
                   ELSE <<>>
       IN here \o layoutFrom(nodes, phs, index + 1)

\* layoutNodes(nodes), closed over the phases of the render (lines 373-429).
layoutNodes(nodes, phs) == layoutFrom(nodes, phs, 0)

\* A render with the phases after an edit: elements and layoutedElements are recomputed
\* (useMemo on [phases, ...]); layoutNodes reads the nodes and builds new ones.
\* A render with new phases: elements and layoutedElements are recomputed
\* (useMemo on [phases, ...]); layoutNodes reads the nodes and builds new ones.
Render(phs) ==
  /\ layPhases' = phs
  /\ layNodes' = ElementNodes(phs, 0)
  /\ layOut' = layoutNodes(layNodes', phs)
  /\ UNCHANGED notLay

\* The parent passes the phases with one more phase at the end.
RenderAppended(ph) ==
  /\ Len(layPhases) < MaxPhases
  /\ Render(Append(layPhases, ph))

\* The parent passes the phases without the phase at position k.
RenderRemoved(k) ==
  /\ k <= Len(layPhases)
  /\ Render(SubSeq(layPhases, 1, k - 1) \o SubSeq(layPhases, k + 1, Len(layPhases)))

LayStart(phs) ==
  /\ layPhases = phs
  /\ layNodes = ElementNodes(phs, 0)
  /\ layOut = layoutNodes(layNodes, phs)

LayIdle == LayStart(<<>>)

(***************************************************************************)
(* The workflow state API client (src/unnamed/part_006).  The state lives  *)
(* in the service; getWorkflowState reads it, updateWorkflowState sends a  *)
(* PUT with some of its fields, updateStepStatus a PATCH for one step.     *)
(***************************************************************************)
WfPhaseIds == {"rapid-prototyping", "automated-qa", "continuous-optimization"}
WfStepIds == {"st1", "st2"}
WfStatuses == {"pending", "in-progress", "completed"}
\* In stepStatuses "none" stands for a step that has no entry in the record.
PatchIds == 1..MaxPatches

NoPatch == [pc |-> "none", stepId |-> "", status |-> ""]
NoMove == [pc |-> "idle", nextPhaseId |-> "", read |-> [s \in WfStepIds |-> "none"]]

\* The service performs the PUT of updateWorkflowState: the fields of the
\* body replace those of the stored state; the stepStatuses record either
\* replaces the stored one or is merged into it key by key.
PutApplied(state, body) ==
  [currentPhaseId |-> body.currentPhaseId,
   currentStepId |-> body.currentStepId,
   stepStatuses |->
     IF wfPutMerges
     THEN [s \in WfStepIds |-> IF body.stepStatuses[s] # "none"
                               THEN body.stepStatuses[s]
                               ELSE state.stepStatuses[s]]
     ELSE body.stepStatuses]

\* The service performs the PATCH of updateStepStatus.
PatchApplied(state, stepId, status) ==
  [state EXCEPT !.stepStatuses[stepId] = status]

\* The body moveToNextPhase hands to updateWorkflowState (lines 87-91).
MoveBody(nextPhaseId, currentState) ==
  [currentPhaseId |-> nextPhaseId,
   currentStepId |-> "null",
   stepStatuses |-> currentState.stepStatuses]

\* moveToNextPhase(projectId, nextPhaseId) up to its await (line 85).
MoveToNextPhase(nextPhaseId) ==
  /\ wfMove.pc \in {"idle", "done", "failed"}
  /\ wfMoves < MaxMoves
  /\ wfMoves' = wfMoves + 1
  /\ wfMove' = [NoMove EXCEPT !.pc = "reading", !.nextPhaseId = nextPhaseId]
  /\ UNCHANGED <<wfState, wfPutMerges, wfPatches>>
  /\ UNCHANGED notWf

\* getWorkflowState resolves with the state the service holds; the PUT of
\* updateWorkflowState is sent with the step statuses just read.
GetWorkflowStateResolves ==
  /\ wfMove.pc = "reading"
  /\ wfMove' = [wfMove EXCEPT !.pc = "writing", !.read = wfState.stepStatuses]
  /\ UNCHANGED <<wfState, wfPutMerges, wfMoves, wfPatches>>
  /\ UNCHANGED notWf

\* getWorkflowState throws (response not ok): moveToNextPhase rejects.
GetWorkflowStateRejects ==
  /\ wfMove.pc = "reading"
  /\ wfMove' = [wfMove EXCEPT !.pc = "failed"]
  /\ UNCHANGED <<wfState, wfPutMerges, wfMoves, wfPatches>>
  /\ UNCHANGED notWf

\* The service performs the PUT and answers it: moveToNextPhase resolves.
UpdateWorkflowStateResolves ==
  /\ wfMove.pc = "writing"
  /\ wfState' = PutApplied(wfState,
                           MoveBody(wfMove.nextPhaseId, [stepStatuses |-> wfMove.read]))
  /\ wfMove' = [wfMove EXCEPT !.pc = "done"]
  /\ UNCHANGED <<wfPutMerges, wfMoves, wfPatches>>
  /\ UNCHANGED notWf

\* The PUT is answered with an error: updateWorkflowState throws.
UpdateWorkflowStateRejects ==
  /\ wfMove.pc = "writing"
  /\ wfMove' = [wfMove EXCEPT !.pc = "failed"]
  /\ UNCHANGED <<wfState, wfPutMerges, wfMoves, wfPatches>>
  /\ UNCHANGED notWf

\* updateStepStatus(projectId, stepId, status) up to its await (line 62).
UpdateStepStatus(i, stepId, status) ==
  /\ wfPatches[i].pc = "none"
  /\ \A j \in PatchIds : j < i => wfPatches[j].pc # "none"
  /\ wfPatches' = [wfPatches EXCEPT ![i] = [pc |-> "awaiting", stepId |-> stepId,
                                            status |-> status]]
  /\ UNCHANGED <<wfState, wfPutMerges, wfMove, wfMoves>>
  /\ UNCHANGED notWf

\* The service performs the PATCH and answers it.
UpdateStepStatusResolves(i) ==
  /\ wfPatches[i].pc = "awaiting"
  /\ wfState' = PatchApplied(wfState, wfPatches[i].stepId, wfPatches[i].status)
  /\ wfPatches' = [wfPatches EXCEPT ![i].pc = "done"]
  /\ UNCHANGED <<wfPutMerges, wfMove, wfMoves>>
  /\ UNCHANGED notWf

\* The PATCH is answered with an error: updateStepStatus throws.
UpdateStepStatusRejects(i) ==
  /\ wfPatches[i].pc = "awaiting"
  /\ wfPatches' = [wfPatches EXCEPT ![i].pc = "failed"]
  /\ UNCHANGED <<wfState, wfPutMerges, wfMove, wfMoves>>
  /\ UNCHANGED notWf

WfStart ==
  /\ wfMove = NoMove
  /\ wfMoves = 0
  /\ wfPatches = [i \in PatchIds |-> NoPatch]

\* initializeWorkflowState (lines 97-103): the state of a new project.
WfInitialized ==
  wfState = [currentPhaseId |-> "rapid-prototyping", currentStepId |-> "null",
             stepStatuses |-> [s \in WfStepIds |-> "none"]]

WfIdle == WfStart /\ WfInitialized /\ wfPutMerges = FALSE

(***************************************************************************)
(* VisualWorkflowEditor: adding, editing and moving phases and steps, and  *)
(* WorkflowEditorPage.handleSave.  `phases` is the definition the page     *)
(* holds (definition.phases); onChange(updated) makes `updated` the        *)
(* phases prop of the next render.  A phase is written as the list of its  *)
(* step ids.  Indices are the source's (from 0); position k of a TLA+      *)
(* sequence is index k - 1.                                                *)
(***************************************************************************)
notDelEd == <<rtVars, authVars, navVars, crudVars, pollVars, errVars,
              layVars, wfVars, dlgVars, ctxVars, edgeVars>>

\* The phases PhaseEditorDialog hands to onSave: a Phase (types.ts, lines
\* 135-143) with its steps array, which may be empty.
DialogPhases == {<<>>, <<"n1">>}

\* The steps StepEditorDialog hands to onSave.
DialogSteps == {"n1"}

\* The editor is rendered: no render has thrown.
EditorAlive == edLast # "crashed"

\* The run may take one more operation of the user.
EditsLeft == edCount + Len(confirmLog) < MaxEdits

\* a copy of seq with seq[index] = value, for an index inside the array
AssignedAt(seq, index, value) == [seq EXCEPT ![index + 1] = value]

\* steps[index] = step, which leaves empty slots when index is past the end
\* (read back as undefined)
StepAssigned(steps, index, step) ==
  IF index < Len(steps)
  THEN AssignedAt(steps, index, step)
  ELSE steps \o [k \in 1..(index - Len(steps)) |-> "undefined"] \o <<step>>

\* splice(fromIndex, 1) followed by splice(toIndex, 0, moved)
Moved(seq, fromIndex, toIndex) ==
  LET rest == RemoveAt(seq, fromIndex + 1)
  IN SubSeq(rest, 1, toIndex) \o <<seq[fromIndex + 1]>>
       \o SubSeq(rest, toIndex + 1, Len(rest))

\* onChange(updatedPhases) called by operation op
OnChange(op, updatedPhases) ==
  /\ EditsLeft
  /\ phases' = updatedPhases
  /\ edLast' = op
  /\ edCount' = edCount + 1

\* handleAddPhase (lines 446-450)
HandleAddPhase ==
  /\ EditorAlive
  /\ EditsLeft
  /\ edCount' = edCount + 1
  /\ phaseDialogMode' = "add"
  /\ isPhaseDialogOpen' = TRUE
  /\ UNCHANGED <<selectedPhaseIndex, stepDialogMode, selectedStepIndices,
                 isStepDialogOpen, saves, edLast>>
  /\ UNCHANGED <<delVars, notDelEd>>

\* handleEditPhase (lines 452-457), called by the node of the phase at index
HandleEditPhase(index) ==
  /\ EditorAlive
  /\ EditsLeft
  /\ edCount' = edCount + 1
  /\ index < Len(phases)
  /\ selectedPhaseIndex' = index
  /\ phaseDialogMode' = "edit"
  /\ isPhaseDialogOpen' = TRUE
  /\ UNCHANGED <<stepDialogMode, selectedStepIndices, isStepDialogOpen,
                 saves, edLast>>
  /\ UNCHANGED <<delVars, notDelEd>>

\* The phase dialog calls onOpenChange(false) (line 690).
PhaseDialogCloses ==
  /\ EditorAlive
  /\ isPhaseDialogOpen
  /\ isPhaseDialogOpen' = FALSE
  /\ UNCHANGED <<phaseDialogMode, selectedPhaseIndex, stepDialogMode,
                 selectedStepIndices, isStepDialogOpen, saves, edLast, edCount>>
  /\ UNCHANGED <<delVars, notDelEd>>

\* handleSavePhase (lines 459-467), called by the phase dialog.  In edit mode
\* with an index past the end of the list the assignment leaves an undefined
\* entry, and the next render throws on it (line 282 reads phase.id of every
\* entry): the editor is gone, and the model stops it there.
HandleSavePhase(newPhase) ==
  /\ EditorAlive
  /\ isPhaseDialogOpen
  /\ IF phaseDialogMode = "add"
     THEN /\ Len(phases) < MaxEditedPhases
          /\ OnChange("savePhase", Append(phases, newPhase))
     ELSE IF selectedPhaseIndex < Len(phases)
          THEN OnChange("savePhase", AssignedAt(phases, selectedPhaseIndex, newPhase))
          ELSE edLast' = "crashed" /\ UNCHANGED <<phases, edCount>>
  /\ UNCHANGED <<phaseDialogMode, selectedPhaseIndex, isPhaseDialogOpen,
                 stepDialogMode, selectedStepIndices, isStepDialogOpen, saves>>
  /\ UNCHANGED <<workflows, deleteRequests, alerts, confirmLog>>
  /\ UNCHANGED notDelEd

\* movePhase (lines 60-65), called by a dragged phase node with its index and
\* the index of the node it is dropped on
MovePhase(fromIndex, toIndex) ==
  /\ EditorAlive
  /\ fromIndex < Len(phases) /\ toIndex < Len(phases)
  /\ OnChange("movePhase", Moved(phases, fromIndex, toIndex))
  /\ UNCHANGED <<phaseDialogMode, selectedPhaseIndex, isPhaseDialogOpen,
                 stepDialogMode, selectedStepIndices, isStepDialogOpen, saves>>
  /\ UNCHANGED <<workflows, deleteRequests, alerts, confirmLog>>
  /\ UNCHANGED notDelEd

\* handleAddStep (lines 483-488)
HandleAddStep(phaseIndex) ==
  /\ EditorAlive
  /\ EditsLeft
  /\ edCount' = edCount + 1
  /\ phaseIndex < Len(phases)
  /\ selectedStepIndices' = [phaseIndex |-> phaseIndex, stepIndex |-> -1]
  /\ stepDialogMode' = "add"
  /\ isStepDialogOpen' = TRUE
  /\ UNCHANGED <<phaseDialogMode, selectedPhaseIndex, isPhaseDialogOpen,
                 saves, edLast>>
  /\ UNCHANGED <<delVars, notDelEd>>

\* handleEditStep (lines 490-495)
HandleEditStep(phaseIndex, stepIndex) ==
  /\ EditorAlive
  /\ EditsLeft
  /\ edCount' = edCount + 1
  /\ phaseIndex < Len(phases)
  /\ stepIndex < Len(phases[phaseIndex + 1])
  /\ selectedStepIndices' = [phaseIndex |-> phaseIndex, stepIndex |-> stepIndex]
  /\ stepDialogMode' = "edit"
  /\ isStepDialogOpen' = TRUE
  /\ UNCHANGED <<phaseDialogMode, selectedPhaseIndex, isPhaseDialogOpen,
                 saves, edLast>>
  /\ UNCHANGED <<delVars, notDelEd>>

\* The step dialog calls onOpenChange(false) (line 699).
StepDialogCloses ==
  /\ EditorAlive
  /\ isStepDialogOpen
  /\ isStepDialogOpen' = FALSE
  /\ UNCHANGED <<phaseDialogMode, selectedPhaseIndex, isPhaseDialogOpen,
                 stepDialogMode, selectedStepIndices, saves, edLast, edCount>>
  /\ UNCHANGED <<delVars, notDelEd>>

\* handleSaveStep (lines 497-510), called by the step dialog.  With a phase
\* index past the end of the list, phase.steps is undefined and spreading it
\* throws inside the handler: nothing is changed.
HandleSaveStep(step) ==
  /\ EditorAlive
  /\ isStepDialogOpen
  /\ selectedStepIndices.phaseIndex < Len(phases)
  /\ LET pi == selectedStepIndices.phaseIndex
         steps == phases[pi + 1]
         updated == IF stepDialogMode = "add"
                    THEN Append(steps, step)
                    ELSE StepAssigned(steps, selectedStepIndices.stepIndex, step)
     IN /\ Len(updated) <= MaxEditedSteps
        /\ OnChange("saveStep", AssignedAt(phases, pi, updated))
  /\ UNCHANGED <<phaseDialogMode, selectedPhaseIndex, isPhaseDialogOpen,
                 stepDialogMode, selectedStepIndices, isStepDialogOpen, saves>>
  /\ UNCHANGED <<workflows, deleteRequests, alerts, confirmLog>>
  /\ UNCHANGED notDelEd

\* moveStep (lines 68-81), called by a dragged step node.  phaseIndex is the
\* result of phases.findIndex(p => p.id === phaseId), -1 when no phase has
\* the id.
MoveStep(phaseIndex, fromIndex, toIndex) ==
  /\ EditorAlive
  /\ phaseIndex < Len(phases)
  /\ IF phaseIndex = -1
     THEN UNCHANGED <<phases, edLast, edCount>>
     ELSE /\ fromIndex < Len(phases[phaseIndex + 1])
          /\ toIndex < Len(phases[phaseIndex + 1])
          /\ OnChange("moveStep",
                      AssignedAt(phases, phaseIndex,
                                 Moved(phases[phaseIndex + 1], fromIndex, toIndex)))
  /\ UNCHANGED <<phaseDialogMode, selectedPhaseIndex, isPhaseDialogOpen,
                 stepDialogMode, selectedStepIndices, isStepDialogOpen, saves>>
  /\ UNCHANGED <<workflows, deleteRequests, alerts, confirmLog>>
  /\ UNCHANGED notDelEd

\* handleDeletePhase and handleDeleteStep are called by the nodes of the
\* rendered editor.
EditorDeletesPhase(index, accepted) ==
  /\ EditorAlive
  /\ EditsLeft
  /\ HandleDeletePhase(index, accepted)

EditorDeletesStep(phaseIndex, stepIndex, accepted) ==
  /\ EditorAlive
  /\ EditsLeft
  /\ HandleDeleteStep(phaseIndex, stepIndex, accepted)

\* WorkflowEditorPage.handleSave up to its await (part_015, lines 84-127).
\* filled: the name and the description are not blank.
HandleSave(filled) ==
  /\ EditorAlive
  /\ IF ~filled
     THEN /\ alerts' = alerts \cup {"Please enter a workflow name"}
          /\ UNCHANGED <<saves, edCount>>
     ELSE IF Len(phases) = 0
     THEN /\ alerts' = alerts \cup {"Workflow must have at least one phase"}
          /\ UNCHANGED <<saves, edCount>>
     ELSE IF \E k \in DOMAIN phases : Len(phases[k]) = 0
     THEN /\ alerts' = alerts \cup {"Phase must have at least one step"}
          /\ UNCHANGED <<saves, edCount>>
     ELSE /\ EditsLeft
          /\ saves' = Append(saves, [definition |-> phases, status |-> "pending"])
          /\ edCount' = edCount + 1
          /\ UNCHANGED alerts
  /\ UNCHANGED <<phaseDialogMode, selectedPhaseIndex, isPhaseDialogOpen,
                 stepDialogMode, selectedStepIndices, isStepDialogOpen, edLast>>
  /\ UNCHANGED <<workflows, deleteRequests, phases, confirmLog>>
  /\ UNCHANGED notDelEd

\* What the workflow service answers to createWorkflow or updateWorkflow:
\* the workflow with the definition it was sent.
ServiceStored(definition) == definition

\* updateWorkflow resolves (part_015, lines 121-130): the definition of the
\* answer becomes the page's definition.  After createWorkflow the page
\* navigates to the editor of the new workflow, which loads that definition
\* (lines 58-75).
SaveResolves(k) ==
  /\ k \in DOMAIN saves
  /\ saves[k].status = "pending"
  /\ saves' = [saves EXCEPT ![k].status = "ok"]
  /\ phases' = ServiceStored(saves[k].definition)
  /\ alerts' = alerts \cup {"Workflow updated successfully!"}
  /\ UNCHANGED <<phaseDialogMode, selectedPhaseIndex, isPhaseDialogOpen,
                 stepDialogMode, selectedStepIndices, isStepDialogOpen,
                 edLast, edCount>>
  /\ UNCHANGED <<workflows, deleteRequests, confirmLog>>
  /\ UNCHANGED notDelEd

\* createWorkflow or updateWorkflow rejects (part_015, lines 132-134).
SaveRejects(k) ==
  /\ k \in DOMAIN saves
  /\ saves[k].status = "pending"
  /\ saves' = [saves EXCEPT ![k].status = "failed"]
  /\ alerts' = alerts \cup {"Failed to save workflow"}
  /\ UNCHANGED <<phaseDialogMode, selectedPhaseIndex, isPhaseDialogOpen,
                 stepDialogMode, selectedStepIndices, isStepDialogOpen,
                 edLast, edCount>>
  /\ UNCHANGED <<workflows, deleteRequests, phases, confirmLog>>
  /\ UNCHANGED notDelEd

EdIdle ==
  /\ phaseDialogMode = "add"
  /\ selectedPhaseIndex = -1
  /\ isPhaseDialogOpen = FALSE
  /\ stepDialogMode = "add"
  /\ selectedStepIndices = [phaseIndex |-> -1, stepIndex |-> -1]
  /\ isStepDialogOpen = FALSE
  /\ saves = <<>>
  /\ edLast = "none"
  /\ edCount = 0

(***************************************************************************)
(* Selection and deletion in the hierarchy view (hierarchy-view.tsx).  The *)
(* view lists the organizations always, the workspaces while an            *)
(* organization is selected (line 115) and the projects while a workspace  *)
(* is selected (line 183); a card is there to be clicked until the         *)
(* deletion of its item has completed.                                     *)
(***************************************************************************)
DeleteKinds == {"deleteOrganization", "deleteWorkspace"}

\* The organizations (or workspaces) whose deletion through the console has
\* completed.
DeletedThroughConsole(kind) ==
  {ops[i].target : i \in {j \in OpIds : ops[j].kind = kind /\ ops[j].pc = "done"}}

\* OrganizationCard onSelect (hierarchy-view.tsx, lines 100-108)
ViewSelectsOrganization(orgId) ==
  /\ orgId \notin DeletedThroughConsole("deleteOrganization")
  /\ \/ QueryHandleSelectOrganization(orgId)
     \/ StateHandleSelectOrganization(orgId)

\* WorkspaceCard onSelect (lines 162-170)
ViewSelectsWorkspace(wsId) ==
  /\ selectedOrganization # ""
  /\ wsId \notin DeletedThroughConsole("deleteWorkspace")
  /\ \/ QueryHandleSelectWorkspace(wsId)
     \/ StateHandleSelectWorkspace(wsId)

\* ProjectCard onSelect (lines 183-260)
ViewSelectsProject(id) ==
  /\ selectedWorkspace # ""
  /\ \/ QueryHandleSelectProject(id)
     \/ StateHandleSelectProject(id)

\* OrganizationCard onDelete and WorkspaceCard onDelete: the delete handler
\* of the hook is called and sends its request.
ViewDeletes(kind, target) ==
  /\ kind = "deleteWorkspace" => selectedOrganization # ""
  /\ target \notin DeletedThroughConsole(kind)
  /\ CallHandler(kind, target, "")

\* useAIBaseQueryState.handleDeleteOrganization and handleDeleteWorkspace
\* after their await (part_013, lines 289-313).
QueryDeleteResolves(i) ==
  /\ navHook = "query"
  /\ ops[i].kind \in DeleteKinds
  /\ CallResolves(i)

\* useAIBaseState.handleDeleteOrganization and handleDeleteWorkspace after
\* their awaits (part_014, lines 500-527): the list is fetched again
\* (fetchOrganizations and fetchWorkspaces catch their own errors, lines
\* 96-114), then the selected organization, or the selected workspace, is
\* set to null when the handler's render had the deleted item selected.
\* The effect on selectedOrganization (lines 583-591) does nothing for null.
StateDeleteResolves(i) ==
  LET op == ops[i] IN
  /\ navHook = "state"
  /\ op.kind \in DeleteKinds
  /\ op.pc = "awaiting"
  /\ ops' = [ops EXCEPT ![i].pc = "done", ![i].results = Append(@, "ok")]
  /\ IF op.kind = "deleteOrganization" /\ op.sel = op.target
     THEN selectedOrganization' = "" /\ UNCHANGED selectedWorkspace
     ELSE IF op.kind = "deleteWorkspace" /\ op.sel = op.target
     THEN selectedWorkspace' = "" /\ UNCHANGED selectedOrganization
     ELSE UNCHANGED <<selectedOrganization, selectedWorkspace>>
  /\ UNCHANGED <<selectedProject, navHook, viewMode, navLast>>
  /\ UNCHANGED <<sandboxes, nextSandbox, projectsCache, cardAwaits, cardBusy>>
  /\ UNCHANGED <<rtVars, authVars, pollVars, errVars, delVars, layVars, wfVars,
                 edVars, dlgVars, ctxVars, edgeVars>>

\* The delete request is rejected: both hooks log and rethrow.
DeleteRejects(i) ==
  /\ ops[i].kind \in DeleteKinds
  /\ CallRejects(i)

(***************************************************************************)
(* The 'Add Workspace' and 'Add Project' dialogs of HierarchyView together *)
(* with the create handlers their onSubmit awaits.  onCreateWorkspace and   *)
(* onCreateProject come from the page that renders the view: they call     *)
(* handleCreateWorkspace(organizationId, name, path) and                   *)
(* handleCreateProject(workspaceId, name, path, workflowId) and return     *)
(* their promise; the id the page holds is an input.                       *)
(***************************************************************************)
ClosedAndReset(pc) == [open |-> FALSE, name |-> "", path |-> "", pc |-> pc]

\* onSubmit of the workspace dialog (lines 140-152) and handleCreateWorkspace
\* up to its await (part_013, lines 193-196): without an organizationId the
\* handler returns at once, and onSubmit goes on as after a success.
CreateWorkspaceSubmit(organizationId) ==
  /\ wsDialog.open
  /\ wsDialog.pc # "awaiting"
  /\ wsDialog' = IF organizationId = ""
                 THEN ClosedAndReset("returned")
                 ELSE [wsDialog EXCEPT !.pc = "awaiting"]
  /\ UNCHANGED <<atd, aiConfig, toasts, consoleErrors>>
  /\ UNCHANGED notErr

\* The "Add Project" button opens the project dialog.
ProjDialogOpen ==
  /\ ~projDialog.open
  /\ projDialog' = [projDialog EXCEPT !.open = TRUE]
  /\ UNCHANGED notDlg

\* The user fills the fields of the project dialog.
ProjDialogEdit(name, path) ==
  /\ projDialog.open
  /\ projDialog.pc # "awaiting"
  /\ projDialog' = [projDialog EXCEPT !.name = name, !.path = path]
  /\ UNCHANGED notDlg

\* onSubmit of the project dialog (lines 220-233) and handleCreateProject up
\* to its first await (part_013, lines 203-207).
CreateProjectSubmit(workspaceId) ==
  /\ projDialog.open
  /\ projDialog.pc # "awaiting"
  /\ projDialog' = IF workspaceId = ""
                   THEN ClosedAndReset("returned")
                   ELSE [projDialog EXCEPT !.pc = "awaiting"]
  /\ UNCHANGED notDlg

\* handleCreateProject resolves (hierarchy-view.tsx, lines 223-229).
ProjSubmitResolves ==
  /\ projDialog.pc = "awaiting"
  /\ projDialog' = ClosedAndReset("resolved")
  /\ UNCHANGED notDlg

\* createProject or updateProject rejects (part_013, lines 214-217;
\* hierarchy-view.tsx, lines 230-233).
ProjSubmitRejects ==
  /\ projDialog.pc = "awaiting"
  /\ projDialog' = [projDialog EXCEPT !.pc = "rejected"]
  /\ UNCHANGED notDlg

DlgIdle == projDialog = ClosedAndReset("idle")

(***************************************************************************)
(* ContextPage (src/src/pages/context-page.tsx): the scope selectors.  The *)
(* page lists the organizations once, the workspaces of the selected       *)
(* organization and the projects of the selected workspace; each list is   *)
(* loaded by an effect on the selection above it.  '' is written "".       *)
(***************************************************************************)
MemoryScopes == {"organization", "workspace", "project"}

\* The order in which the service lists the items it holds.
OrgsInOrder == <<"o1", "o2">>
WorkspacesInOrder == <<"w1", "w2">>
ProjectsInOrder == <<"p1", "p2">>

\* What the service may hold: any organization for a workspace, any
\* workspace for a project, and the two organizations or none.
Hierarchies ==
  [orgs : {<<>>, OrgsInOrder}, wsOrg : [WsIds -> OrgIds],
   projWs : [ProjectIds -> WsIds]]

Ids(list) == {list[k] : k \in DOMAIN list}

WithoutRequest(k) ==
  [j \in 1..(Len(hierarchyRequests) - 1) |->
     IF j < k THEN hierarchyRequests[j] ELSE hierarchyRequests[j + 1]]

\* client.workspaces.listOrganizations(), listWorkspaces(orgId) and
\* listProjects(workspaceId): the children of the given parent.
ListOrganizations == hierarchy.orgs

ListWorkspaces(orgId) ==
  SelectSeq(WorkspacesInOrder, LAMBDA w : hierarchy.wsOrg[w] = orgId)

ListProjects(workspaceId) ==
  SelectSeq(ProjectsInOrder, LAMBDA p : hierarchy.projWs[p] = workspaceId)

\* The effect on selectedOrgId (lines 77-81) after a render in which it
\* changed from orgBefore to orgAfter: the requests it sends.
WorkspacesEffect(orgBefore, orgAfter) ==
  IF orgAfter # orgBefore /\ orgAfter # ""
  THEN <<[call |-> "listWorkspaces", arg |-> orgAfter, scopeType |-> scopeType]>>
  ELSE <<>>

\* The effect on selectedWorkspaceId (lines 97-101).  loadProjects is the
\* function of the render the effect ran in, so the scopeType it reads
\* after its await (line 108) is the one of that render.
ProjectsEffect(wsBefore, wsAfter) ==
  IF wsAfter # wsBefore /\ wsAfter # ""
  THEN <<[call |-> "listProjects", arg |-> wsAfter, scopeType |-> scopeType]>>
  ELSE <<>>

\* The state of the first render with its mount effect run (lines 26-33,
\* 56-58): loadOrganizations has set isLoadingHierarchy and sent its call.
ContextPageMounted ==
  /\ scopeType = "project"
  /\ selectedOrgId = "" /\ selectedWorkspaceId = "" /\ selectedProjectId = ""
  /\ organizations = <<>> /\ workspaces = <<>> /\ projects = <<>>
  /\ isLoadingHierarchy = TRUE
  /\ hierarchyRequests =
       <<[call |-> "listOrganizations", arg |-> "", scopeType |-> "project"]>>
  /\ scopeSelections = 0

\* loadOrganizations after its await (lines 64-68, 71-73).
ListOrganizationsResolves(k) ==
  /\ hierarchyRequests[k].call = "listOrganizations"
  /\ LET orgs == ListOrganizations
         org == IF Len(orgs) > 0 THEN orgs[1] ELSE selectedOrgId
     IN /\ organizations' = orgs
        /\ selectedOrgId' = org
        /\ hierarchyRequests' = WithoutRequest(k) \o WorkspacesEffect(selectedOrgId, org)
  /\ isLoadingHierarchy' = FALSE
  /\ UNCHANGED <<scopeType, selectedWorkspaceId, selectedProjectId, workspaces,
                 projects, hierarchy, scopeSelections>>
  /\ UNCHANGED notCtx

\* loadOrganizations when the call fails (lines 69-73).
ListOrganizationsRejects(k) ==
  /\ hierarchyRequests[k].call = "listOrganizations"
  /\ hierarchyRequests' = WithoutRequest(k)
  /\ isLoadingHierarchy' = FALSE
  /\ UNCHANGED <<scopeType, selectedOrgId, selectedWorkspaceId, selectedProjectId,
                 organizations, workspaces, projects, hierarchy, scopeSelections>>
  /\ UNCHANGED notCtx

\* loadWorkspaces after its await (lines 86-90), then the effect on
\* selectedWorkspaceId.
ListWorkspacesResolves(k) ==
  /\ hierarchyRequests[k].call = "listWorkspaces"
  /\ LET ws == ListWorkspaces(hierarchyRequests[k].arg)
         selected == IF Len(ws) > 0 THEN ws[1] ELSE selectedWorkspaceId
     IN /\ workspaces' = ws
        /\ selectedWorkspaceId' = selected
        /\ hierarchyRequests' =
             WithoutRequest(k) \o ProjectsEffect(selectedWorkspaceId, selected)
  /\ UNCHANGED <<scopeType, selectedOrgId, selectedProjectId, organizations,
                 projects, isLoadingHierarchy, hierarchy, scopeSelections>>
  /\ UNCHANGED notCtx

\* loadWorkspaces when the call fails (lines 91-93).
ListWorkspacesRejects(k) ==
  /\ hierarchyRequests[k].call = "listWorkspaces"
  /\ hierarchyRequests' = WithoutRequest(k)
  /\ UNCHANGED <<scopeType, selectedOrgId, selectedWorkspaceId, selectedProjectId,
                 organizations, workspaces, projects, isLoadingHierarchy,
                 hierarchy, scopeSelections>>
  /\ UNCHANGED notCtx

\* loadProjects after its await (lines 106-110).
ListProjectsResolves(k) ==
  /\ hierarchyRequests[k].call = "listProjects"
  /\ LET projs == ListProjects(hierarchyRequests[k].arg)
     IN /\ projects' = projs
        /\ selectedProjectId' =
             IF Len(projs) > 0 /\ hierarchyRequests[k].scopeType = "project"
             THEN projs[1] ELSE selectedProjectId
  /\ hierarchyRequests' = WithoutRequest(k)
  /\ UNCHANGED <<scopeType, selectedOrgId, selectedWorkspaceId, organizations,
                 workspaces, isLoadingHierarchy, hierarchy, scopeSelections>>
  /\ UNCHANGED notCtx

\* loadProjects when the call fails (lines 111-113).
ListProjectsRejects(k) ==
  /\ hierarchyRequests[k].call = "listProjects"
  /\ hierarchyRequests' = WithoutRequest(k)
  /\ UNCHANGED <<scopeType, selectedOrgId, selectedWorkspaceId, selectedProjectId,
                 organizations, workspaces, projects, isLoadingHierarchy,
                 hierarchy, scopeSelections>>
  /\ UNCHANGED notCtx

\* The scope level selector (line 160).
SetScopeType(value) ==
  /\ scopeSelections < MaxScopeSelections
  /\ value # scopeType
  /\ scopeType' = value
  /\ scopeSelections' = scopeSelections + 1
  /\ UNCHANGED <<selectedOrgId, selectedWorkspaceId, selectedProjectId,
                 organizations, workspaces, projects, isLoadingHierarchy,
                 hierarchy, hierarchyRequests>>
  /\ UNCHANGED notCtx

\* The organization selector (lines 190-199), then the effect on
\* selectedOrgId.
SetSelectedOrgId(orgId) ==
  /\ scopeSelections < MaxScopeSelections
  /\ ~isLoadingHierarchy
  /\ orgId \in Ids(organizations)
  /\ orgId # selectedOrgId
  /\ selectedOrgId' = orgId
  /\ hierarchyRequests' = hierarchyRequests \o WorkspacesEffect(selectedOrgId, orgId)
  /\ scopeSelections' = scopeSelections + 1
  /\ UNCHANGED <<scopeType, selectedWorkspaceId, selectedProjectId, organizations,
                 workspaces, projects, isLoadingHierarchy, hierarchy>>
  /\ UNCHANGED notCtx

\* The workspace selector (lines 203-216), then the effect on
\* selectedWorkspaceId.
SetSelectedWorkspaceId(workspaceId) ==
  /\ scopeSelections < MaxScopeSelections
  /\ scopeType \in {"workspace", "project"}
  /\ selectedOrgId # ""
  /\ workspaceId \in Ids(workspaces)
  /\ workspaceId # selectedWorkspaceId
  /\ selectedWorkspaceId' = workspaceId
  /\ hierarchyRequests' =
       hierarchyRequests \o ProjectsEffect(selectedWorkspaceId, workspaceId)
  /\ scopeSelections' = scopeSelections + 1
  /\ UNCHANGED <<scopeType, selectedOrgId, selectedProjectId, organizations,
                 workspaces, projects, isLoadingHierarchy, hierarchy>>
  /\ UNCHANGED notCtx

\* The project selector (lines 220-233).
SetSelectedProjectId(id) ==
  /\ scopeSelections < MaxScopeSelections
  /\ scopeType = "project"
  /\ selectedWorkspaceId # ""
  /\ id \in Ids(projects)
  /\ id # selectedProjectId
  /\ selectedProjectId' = id
  /\ scopeSelections' = scopeSelections + 1
  /\ UNCHANGED <<scopeType, selectedOrgId, selectedWorkspaceId, organizations,
                 workspaces, projects, isLoadingHierarchy, hierarchy,
                 hierarchyRequests>>
  /\ UNCHANGED notCtx

CtxIdle ==
  /\ scopeType = "project"
  /\ selectedOrgId = "" /\ selectedWorkspaceId = "" /\ selectedProjectId = ""
  /\ organizations = <<>> /\ workspaces = <<>> /\ projects = <<>>
  /\ isLoadingHierarchy = TRUE
  /\ hierarchy = [orgs |-> <<>>, wsOrg |-> [w \in WsIds |-> "o1"],
                  projWs |-> [p \in ProjectIds |-> "w1"]]
  /\ hierarchyRequests = <<>>
  /\ scopeSelections = 0

(***************************************************************************)
(* VisualWorkflowEditor: the edges of the graph (visual-workflow-editor    *)
(* .tsx, lines 83-205 and 277-364).  An id such as `seq-${a}-${b}` is      *)
(* written <<"seq", a, b>>; an option that is not passed is "".  Of an     *)
(* edge the model keeps id, source, target, handles, animated and type     *)
(* (style and label do not enter the type), and next to them the           *)
(* connectionType and transitionType createEdge was called with.           *)
(***************************************************************************)
EdgePhaseIds == {"ph1", "ph2"}
TransitionTypes == {"forward", "feedback", "loop"}

\* A step is its id and the number of workflows linked to it.
EdgeStep(id, linked) == [id |-> id, workflows |-> linked]

\* The phases the parent may pass.
EdgePhaseLists ==
  {<<>>,
   <<[id |-> "ph1", steps |-> <<>>]>>,
   <<[id |-> "ph1", steps |-> <<EdgeStep("s1", 0), EdgeStep("s2", 2)>>]>>,
   <<[id |-> "ph1", steps |-> <<EdgeStep("s1", 0), EdgeStep("s2", 2)>>],
     [id |-> "ph2", steps |-> <<EdgeStep("s3", 1)>>]>>}

\* The transitions the parent may pass: the target may be a phase that is
\* not in the list, and a stored transition may lack its type.
Transitions ==
  [from : EdgePhaseIds, to : EdgePhaseIds \cup {"ph3"},
   type : TransitionTypes \cup {""}]

NoOptions ==
  [transitionType |-> "", type |-> "", customEdgeType |-> "",
   customSourceHandle |-> "", customTargetHandle |-> "", animated |-> "undefined"]

\* getOutgoingTransitions (lines 84-86).
getOutgoingTransitions(phaseId, allTransitions) ==
  SelectSeq(allTransitions, LAMBDA transition : transition.from = phaseId)

\* getEdgeType with every edge 'smoothstep'.
getEdgeTypeAlwaysSmoothstep(transitionType) == "smoothstep"

\* getEdgeType (lines 101-108).
getEdgeType(transitionType) ==
  IF transitionType # ""
  THEN IF transitionType = "forward" THEN "smoothstep" ELSE "simplebezier"
  ELSE "smoothstep"

\* createEdge (lines 111-205).
createEdge(id, source, target, connectionType, options) ==
  LET given == OrStr(options.customEdgeType, options.type)
      transition == OrStr(options.transitionType, "forward")
      sourceHandle ==
        OrStr(options.customSourceHandle,
              CASE connectionType = "phase-to-phase" ->
                     IF transition = "forward" THEN "phase-output-forward"
                     ELSE IF transition = "feedback" THEN "phase-output-feedback"
                     ELSE "phase-output-loop"
                [] connectionType = "phase-to-step" -> "phase-output-step"
                [] OTHER -> "step-output")
      targetHandle ==
        OrStr(options.customTargetHandle,
              CASE connectionType = "phase-to-phase" ->
                     IF transition = "forward" THEN "phase-input"
                     ELSE IF transition = "feedback" THEN "phase-input-feedback"
                     ELSE "phase-input-loop"
                [] connectionType = "linked-workflow" -> "phase-input"
                [] OTHER -> "step-input")
      edgeType ==
        OrStr(given, IF connectionType = "phase-to-phase"
                     THEN getEdgeType(transition) ELSE "smoothstep")
      isAnimated ==
        IF options.animated # "undefined" THEN options.animated
        ELSE connectionType = "phase-to-phase"
  IN [id |-> id, source |-> source, sourceHandle |-> sourceHandle,
      target |-> target, targetHandle |-> targetHandle,
      animated |-> isAnimated, type |-> edgeType,
      curveSmoothness |-> edgeType = "simplebezier",
      connectionType |-> connectionType,
      transitionType |-> options.transitionType]

\* elements (lines 283-310): the edges of the transitions that leave one
\* phase, for the transitions whose target phase is in the list.
TransitionEdges(phs, phaseId, allTransitions) ==
  LET outgoingTransitions == getOutgoingTransitions(phaseId, allTransitions)
      found == SelectSeq(outgoingTransitions,
                         LAMBDA transition :
                           \E k \in DOMAIN phs : phs[k].id = transition.to)
  IN [k \in DOMAIN found |->
        createEdge(<<"transition", phaseId, found[k].to>>, <<"phase", phaseId>>,
                   <<"phase", found[k].to>>, "phase-to-phase",
                   [NoOptions EXCEPT !.transitionType = found[k].type])]

\* elements (lines 316-340): the first step hangs on its phase, every
\* other step on the step before it.
SequenceEdges(ph) ==
  [i \in DOMAIN ph.steps |->
     IF i = 1
     THEN createEdge(<<"seq", ph.id, ph.steps[i].id>>, <<"phase", ph.id>>,
                     <<"step", ph.steps[i].id>>, "phase-to-step", NoOptions)
     ELSE createEdge(<<"seq", ph.steps[i - 1].id, ph.steps[i].id>>,
                     <<"step", ph.steps[i - 1].id>>,
                     <<"step", ph.steps[i].id>>, "step-to-step", NoOptions)]

\* elements (lines 343-364): one edge per linked workflow of a step, back
\* to the phase of the step.
LinkEdgesOfStep(ph, step) ==
  [i \in 1..step.workflows |->
     createEdge(<<"link", step.id, i - 1>>, <<"step", step.id>>,
                <<"phase", ph.id>>, "linked-workflow", NoOptions)]

RECURSIVE Flattened(_)
Flattened(lists) ==
  IF lists = <<>> THEN <<>> ELSE Head(lists) \o Flattened(Tail(lists))

LinkEdges(ph) ==
  Flattened([j \in DOMAIN ph.steps |-> LinkEdgesOfStep(ph, ph.steps[j])])

\* elements.edges (lines 277-366): the three loops over the phases, one
\* after the other.
ElementEdges(phs, allTransitions) ==
  Flattened([k \in DOMAIN phs |-> TransitionEdges(phs, phs[k].id, allTransitions)])
  \o Flattened([k \in DOMAIN phs |-> SequenceEdges(phs[k])])
  \o Flattened([k \in DOMAIN phs |-> LinkEdges(phs[k])])

\* A render with the props phs and allTransitions (useMemo, line 367).
RenderEdges(phs, allTransitions) ==
  /\ edgePhases' = phs
  /\ transitions' = allTransitions
  /\ edges' = ElementEdges(phs, allTransitions)
  /\ UNCHANGED notEdge

\* The parent passes other phases.
RenderWithPhases(phs) ==
  /\ phs # edgePhases
  /\ RenderEdges(phs, transitions)

\* The parent passes the transitions with one more at the end.
RenderWithTransition(transition) ==
  /\ Len(transitions) < MaxTransitions
  /\ RenderEdges(edgePhases, Append(transitions, transition))

\* The parent passes the transitions without the one at position k.
RenderWithoutTransition(k) ==
  /\ k <= Len(transitions)
  /\ RenderEdges(edgePhases, SubSeq(transitions, 1, k - 1)
                             \o SubSeq(transitions, k + 1, Len(transitions)))

EdgeStart(phs, allTransitions) ==
  /\ edgePhases = phs
  /\ transitions = allTransitions
  /\ edges = ElementEdges(phs, allTransitions)

EdgeIdle == EdgeStart(<<>>, <<>>)

(***************************************************************************)
(* Specifications: one per component, the other components at rest.        *)
(***************************************************************************)
RtStart ==
  /\ phase = "init"
  /\ projectId = "p1"
  /\ initialTasksLoaded = FALSE
  /\ loading = TRUE
  /\ fetchError = FALSE
  /\ tasksMap = EmptyMap
  /\ listPending = 0
  /\ listCalls = 0
  /\ isConnected = FALSE
  /\ connectionState = "disconnected"
  /\ hookError = FALSE
  /\ unsubscribeRef = 0
  /\ subs = [i \in SubIds |-> NoSub]
  /\ delivered = <<>>
  /\ onEventLog = <<>>

RtIdle == RtStart /\ connApi = TRUE

\* ---- the task history with a fixed project: the event merge ----
InitHistory ==
  RtIdle /\ AuthIdle /\ NavIdle /\ CrudIdle /\ PollIdle /\ ErrIdle /\ DelIdle /\ LayIdle /\ WfIdle /\ EdIdle /\ DlgIdle /\ CtxIdle /\ EdgeIdle

NextHistory ==
  \/ Mount
  \/ \E h \in ServerHistories : FetchResolve(h)
  \/ FetchReject
  \/ HandleRefresh
  \/ \E i \in SubIds : SubscribeResolve(i)
  \/ \E i \in SubIds : SubscribeReject(i)
  \/ \E i \in SubIds, e \in Events : DeliverEvent(i, e)
  \/ Unmount

SpecHistory == InitHistory /\ [][NextHistory]_vars

\* ---- the subscription lifecycle under project changes ----
InitHook ==
  /\ RtStart /\ connApi \in BOOLEAN
  /\ AuthIdle /\ NavIdle /\ CrudIdle /\ PollIdle /\ ErrIdle /\ DelIdle /\ LayIdle /\ WfIdle /\ EdIdle /\ DlgIdle /\ CtxIdle /\ EdgeIdle

NextHook ==
  \/ Mount
  \/ \E h \in {EmptyMap} : FetchResolve(h)
  \/ FetchReject
  \/ \E p \in ProjectIds : ChangeProject(p)
  \/ \E i \in SubIds : SubscribeResolve(i)
  \/ \E i \in SubIds : SubscribeReject(i)
  \/ \E i \in SubIds, ty \in {"connected", "disconnected", "error"} : ConnEvent(i, ty)
  \/ \E i \in SubIds, e \in HookEvents : DeliverEvent(i, e)
  \/ Unmount

SpecHook == InitHook /\ [][NextHook]_vars

\* ---- authenticatedFetch ----
InitAuth ==
  /\ AuthStart
  /\ desktop \in BOOLEAN
  /\ storageKeys \in {{}, SdkKeys, LegacyKeys, SdkKeys \cup LegacyKeys}
  /\ RtIdle /\ NavIdle /\ CrudIdle /\ PollIdle /\ ErrIdle /\ DelIdle /\ LayIdle /\ WfIdle /\ EdIdle /\ DlgIdle /\ CtxIdle /\ EdgeIdle

NextAuth ==
  \/ \E impl \in {"api-helpers", "legacy"} : AuthenticatedFetchCall(impl)
  \/ \E c \in StatusCodes \cup {0} : AuthenticatedFetchResponse(c)
  \/ AuthenticatedFetchReject
  \/ LoginSubmit

SpecAuth == InitAuth /\ [][NextAuth]_vars

\* ---- selection ----
InitNav ==
  /\ NavStart
  /\ navHook \in {"query", "state"}
  /\ RtIdle /\ AuthIdle /\ CrudIdle /\ PollIdle /\ ErrIdle /\ DelIdle /\ LayIdle /\ WfIdle /\ EdIdle /\ DlgIdle /\ CtxIdle /\ EdgeIdle

NextNav ==
  \/ \E o \in OrgIds \cup {""} : QueryHandleSelectOrganization(o)
  \/ \E w \in WsIds \cup {""} : QueryHandleSelectWorkspace(w)
  \/ \E p \in ProjectIds \cup {""} : QueryHandleSelectProject(p)
  \/ \E m \in ViewModes : QueryHandleSetViewMode(m)
  \/ \E o \in OrgIds \cup {""} : StateHandleSelectOrganization(o)
  \/ \E w \in WsIds \cup {""} : StateHandleSelectWorkspace(w)
  \/ \E p \in ProjectIds \cup {""} : StateHandleSelectProject(p)
  \/ \E m \in ViewModes : StateHandleSetViewMode(m)

SpecNav == InitNav /\ [][NextNav]_vars

\* ---- create / update / delete handlers ----
InitCrud ==
  /\ CrudStart
  /\ OneSandboxYet
  /\ cardAwaits \in BOOLEAN
  /\ navHook = "query"
  /\ selectedOrganization = "o1"
  /\ selectedWorkspace = "w1"
  /\ selectedProject = "p1"
  /\ viewMode = "hierarchy"
  /\ navLast = [op |-> "none", arg |-> "", prevOrg |-> "", prevWs |-> ""]
  /\ RtIdle /\ AuthIdle /\ PollIdle /\ ErrIdle /\ DelIdle /\ LayIdle /\ WfIdle /\ EdIdle /\ DlgIdle /\ CtxIdle /\ EdgeIdle

NextCrud ==
  \/ \E a \in HandlerArgs : CallHandler(a[1], a[2], a[3])
  \/ \E k \in SandboxKinds, p \in ProjectIds : CardSandboxClick(k, p)
  \/ \E i \in OpIds : CallResolves(i)
  \/ \E i \in OpIds : CallRejects(i)
  \/ \E i \in OpIds, ok \in BOOLEAN : RefetchSettles(i, ok)
  \/ ProjectsRefetched

SpecCrud == InitCrud /\ [][NextCrud]_vars

\* ---- the two task history components and their remote calls ----
InitPoll ==
  RtIdle /\ AuthIdle /\ NavIdle /\ CrudIdle /\ PollIdle /\ ErrIdle /\ DelIdle /\ LayIdle /\ WfIdle /\ EdIdle /\ DlgIdle /\ CtxIdle /\ EdgeIdle

NextPoll ==
  \/ Mount
  \/ \E h \in {EmptyMap} : FetchResolve(h)
  \/ FetchReject
  \/ HandleRefresh
  \/ \E p \in ProjectIds : ChangeProject(p)
  \/ \E i \in SubIds : SubscribeResolve(i)
  \/ \E i \in SubIds : SubscribeReject(i)
  \/ Unmount
  \/ ThpMount
  \/ ThpTick
  \/ ThpRefreshClick
  \/ ThpResolve
  \/ ThpReject
  \/ \E p \in ProjectIds : ThpChangeProject(p)
  \/ ThpUnmount

SpecPoll == InitPoll /\ [][NextPoll]_vars

\* ---- error display ----
InitErr ==
  RtIdle /\ AuthIdle /\ NavIdle /\ CrudIdle /\ PollIdle /\ ErrIdle /\ DelIdle /\ LayIdle /\ WfIdle /\ EdIdle /\ DlgIdle /\ CtxIdle /\ EdgeIdle

NextErr ==
  \/ AtdOpen
  \/ \E t \in Texts, pr \in Texts : AtdEdit(t, pr)
  \/ AtdCancel
  \/ HandleExecute
  \/ ExecuteResolves
  \/ ExecuteRejects
  \/ WsDialogOpen
  \/ \E n \in Texts, pa \in Texts : WsDialogEdit(n, pa)
  \/ WsSubmit
  \/ WsSubmitResolves
  \/ WsSubmitRejects
  \/ AiConfigOpen
  \/ AiConfigClose
  \/ AiConfigSave
  \/ SaveAiConfigResolves
  \/ SaveAiConfigRejects

SpecErr == InitErr /\ [][NextErr]_vars

\* ---- deleting workflows, phases and steps ----
InitDel ==
  /\ DelStart
  /\ phases \in EditedWorkflows
  /\ RtIdle /\ AuthIdle /\ NavIdle /\ CrudIdle /\ PollIdle /\ ErrIdle /\ LayIdle /\ WfIdle /\ EdIdle /\ DlgIdle /\ CtxIdle /\ EdgeIdle

NextDel ==
  \/ \E w \in WorkflowIds, acc \in BOOLEAN : HandleDelete(w, acc)
  \/ \E k \in 1..MaxConfirms : DeleteWorkflowResolves(k)
  \/ \E k \in 1..MaxConfirms : DeleteWorkflowRejects(k)
  \/ \E x \in 1..MaxIndex, acc \in BOOLEAN : HandleDeletePhase(x, acc)
  \/ \E x \in 1..MaxIndex, y \in 1..MaxIndex, acc \in BOOLEAN : HandleDeleteStep(x, y, acc)

SpecDel == InitDel /\ [][NextDel]_vars

InitLayout ==
  /\ \E phs \in LayPhaseLists : LayStart(phs)
  /\ RtIdle /\ AuthIdle /\ NavIdle /\ CrudIdle /\ PollIdle /\ ErrIdle /\ DelIdle /\ WfIdle /\ EdIdle /\ DlgIdle /\ CtxIdle /\ EdgeIdle

NextLayout ==
  \/ \E ph \in LayPhase : RenderAppended(ph)
  \/ \E k \in 1..MaxPhases : RenderRemoved(k)

SpecLayout == InitLayout /\ [][NextLayout]_vars

InitWorkflowState ==
  /\ WfStart
  /\ wfPutMerges \in BOOLEAN
  /\ \/ WfInitialized
     \/ wfState = [currentPhaseId |-> "rapid-prototyping", currentStepId |-> "st1",
                   stepStatuses |-> [s \in WfStepIds |->
                                      IF s = "st1" THEN "in-progress" ELSE "none"]]
  /\ RtIdle /\ AuthIdle /\ NavIdle /\ CrudIdle /\ PollIdle /\ ErrIdle /\ DelIdle /\ LayIdle /\ EdIdle /\ DlgIdle /\ CtxIdle /\ EdgeIdle

NextWorkflowState ==
  \/ \E p \in WfPhaseIds : MoveToNextPhase(p)
  \/ GetWorkflowStateResolves
  \/ GetWorkflowStateRejects
  \/ UpdateWorkflowStateResolves
  \/ UpdateWorkflowStateRejects
  \/ \E i \in PatchIds, s \in WfStepIds, st \in WfStatuses : UpdateStepStatus(i, s, st)
  \/ \E i \in PatchIds : UpdateStepStatusResolves(i)
  \/ \E i \in PatchIds : UpdateStepStatusRejects(i)

SpecWorkflowState == InitWorkflowState /\ [][NextWorkflowState]_vars

InitEditor ==
  /\ DelIdle
  /\ EdIdle
  /\ RtIdle /\ AuthIdle /\ NavIdle /\ CrudIdle /\ PollIdle /\ ErrIdle /\ LayIdle /\ WfIdle /\ DlgIdle /\ CtxIdle /\ EdgeIdle

NextEditor ==
  \/ HandleAddPhase
  \/ \E x \in 0..MaxEditedPhases : HandleEditPhase(x)
  \/ PhaseDialogCloses
  \/ \E ph \in DialogPhases : HandleSavePhase(ph)
  \/ \E x \in 0..MaxEditedPhases, y \in 0..MaxEditedPhases : MovePhase(x, y)
  \/ \E x \in 1..(MaxEditedPhases + 1), acc \in BOOLEAN : EditorDeletesPhase(x, acc)
  \/ \E x \in 0..MaxEditedPhases : HandleAddStep(x)
  \/ \E x \in 0..MaxEditedPhases, y \in 0..MaxEditedSteps : HandleEditStep(x, y)
  \/ StepDialogCloses
  \/ \E st \in DialogSteps : HandleSaveStep(st)
  \/ \E x \in -1..MaxEditedPhases, y \in 0..MaxEditedSteps, z \in 0..MaxEditedSteps :
       MoveStep(x, y, z)
  \/ \E x \in 1..(MaxEditedPhases + 1), y \in 1..(MaxEditedSteps + 1), acc \in BOOLEAN :
       EditorDeletesStep(x, y, acc)
  \/ \E filled \in BOOLEAN : HandleSave(filled)
  \/ \E k \in 1..MaxEdits : SaveResolves(k)
  \/ \E k \in 1..MaxEdits : SaveRejects(k)

SpecEditor == InitEditor /\ [][NextEditor]_vars

InitSelection ==
  /\ NavStart
  /\ navHook \in {"query", "state"}
  /\ RtIdle /\ AuthIdle /\ CrudIdle /\ PollIdle /\ ErrIdle /\ DelIdle /\ LayIdle /\ WfIdle /\ EdIdle /\ DlgIdle /\ CtxIdle /\ EdgeIdle

NextSelection ==
  \/ \E o \in OrgIds : ViewSelectsOrganization(o)
  \/ \E w \in WsIds : ViewSelectsWorkspace(w)
  \/ \E p \in ProjectIds : ViewSelectsProject(p)
  \/ \E o \in OrgIds : ViewDeletes("deleteOrganization", o)
  \/ \E w \in WsIds : ViewDeletes("deleteWorkspace", w)
  \/ \E i \in OpIds : QueryDeleteResolves(i)
  \/ \E i \in OpIds : StateDeleteResolves(i)
  \/ \E i \in OpIds : DeleteRejects(i)

SpecSelection == InitSelection /\ [][NextSelection]_vars

InitSubmit ==
  RtIdle /\ AuthIdle /\ NavIdle /\ CrudIdle /\ PollIdle /\ ErrIdle /\ DelIdle /\ LayIdle /\ WfIdle /\ EdIdle /\ DlgIdle /\ CtxIdle /\ EdgeIdle

NextSubmit ==
  \/ WsDialogOpen
  \/ \E n \in Texts, pa \in Texts : WsDialogEdit(n, pa)
  \/ \E o \in OrgIds \cup {""} : CreateWorkspaceSubmit(o)
  \/ WsSubmitResolves
  \/ WsSubmitRejects
  \/ ProjDialogOpen
  \/ \E n \in Texts, pa \in Texts : ProjDialogEdit(n, pa)
  \/ \E w \in WsIds \cup {""} : CreateProjectSubmit(w)
  \/ ProjSubmitResolves
  \/ ProjSubmitRejects
  \/ AtdOpen
  \/ \E t \in Texts, pr \in Texts : AtdEdit(t, pr)
  \/ AtdCancel
  \/ HandleExecute
  \/ ExecuteResolves
  \/ ExecuteRejects

SpecSubmit == InitSubmit /\ [][NextSubmit]_vars

(***************************************************************************)
(* Properties of the realtime hook and of the task history.                *)
(***************************************************************************)
Last(seq) == seq[Len(seq)]
ItemsOf(map, t) == IF t \in DOMAIN map THEN map[t].artifacts.items ELSE <<>>
SubscribeSettled == \A i \in SubIds : subs[i].pc # "awaiting"

\* C1: once the component is unmounted and every subscribe() call has
\* finished, no task callback and no connection-state listener registered by
\* the hook is still active, and the connection state is 'disconnected'.
C1_UnmountCancelsSubscription ==
  (phase = "unmounted" /\ SubscribeSettled) =>
    /\ \A i \in SubIds : ~subs[i].stateL /\ ~subs[i].evCb
    /\ connectionState = "disconnected"

\* C2: every realtime event processed by the mounted task history leaves each
\* task's artifacts list as it was, except that an 'artifact' event appends
\* its artifact at the end of the list of its own task.
C2_ArtifactsOnlyAppend ==
  [][(delivered' # delivered /\ Mounted) =>
       LET e == Last(delivered') IN
       \A t \in TaskIds :
         ItemsOf(tasksMap', t) =
           IF e.taskId = t /\ e.type = "artifact"
           THEN Append(ItemsOf(tasksMap, t), e.artifact)
           ELSE ItemsOf(tasksMap, t)]_vars

\* C2 witness: artifact a1 was appended behind the a2 the server had listed,
\* and a later event of another type left both in place.
C2_Witness ==
  /\ Mounted
  /\ Len(onEventLog) = 2
  /\ onEventLog[1].type = "artifact"
  /\ onEventLog[2].type = "task_completed"
  /\ ItemsOf(tasksMap, "t1") = <<"a2", "a1">>

\* C3: the calls made to onEvent are exactly the events delivered to the
\* hook's task callbacks, once each and in delivery order, and right after an
\* event is processed by the mounted component the task map has an entry
\* under the event's taskId.
C3_EventsRepublished ==
  [][/\ onEventLog' = delivered'
     /\ (delivered' # delivered /\ Mounted) =>
          Last(delivered').taskId \in DOMAIN tasksMap']_vars

\* C3 witness: two events of different tasks were republished, both tasks
\* are in the map.
C3_Witness ==
  /\ Mounted
  /\ Len(onEventLog) = 2
  /\ onEventLog = delivered
  /\ onEventLog[1].taskId # onEventLog[2].taskId
  /\ {onEventLog[1].taskId, onEventLog[2].taskId} \subseteq DOMAIN tasksMap

(***************************************************************************)
(* Properties of authenticatedFetch.                                       *)
(***************************************************************************)
\* C4: whenever a call of authenticatedFetch receives an HTTP response whose
\* status is 401 or 403, the window location is '/login' when the call
\* returns.
C4_UnauthorizedRedirects ==
  [][(authPc = "awaiting" /\ authPc' = "done" /\ httpStatus' \in {401, 403})
       => location' = "/login"]_vars

\* C4 witness: in the desktop shell, the older copy got a 403 through the
\* proxy, removed its token and went to the login page.
C4_Witness ==
  /\ authPc = "done"
  /\ httpStatus = 403
  /\ desktop
  /\ authImpl = "legacy"
  /\ authHeader
  /\ "authToken" \notin storageKeys
  /\ location = "/login"

Bound(op) == op.workflowId \notin {"", "none"}

IsPrefix(s, t) == Len(s) <= Len(t) /\ \A k \in 1..Len(s) : s[k] = t[k]

AllOk(results) == \A k \in 1..Len(results) : results[k] = "ok"

\* C19: a destroy or recreate of a sandbox makes its remote calls in the
\* order stopSandbox, deleteSandbox, createSandbox (recreate only), each
\* only after every call before it has succeeded; the data is refreshed
\* only after all of them succeeded; a call that fails ends the handler
\* with the failure and no later call is made.
C19_SandboxCallsInOrder ==
  \A i \in OpIds :
    LET op == ops[i]
        calls == IF op.kind = "destroySandbox"
                 THEN <<"stopSandbox", "deleteSandbox">>
                 ELSE <<"stopSandbox", "deleteSandbox", "createSandbox">>
    IN op.kind \in {"destroySandbox", "recreateSandbox"} =>
         /\ IsPrefix(op.issued, calls)
         /\ AllOk(SubSeq(op.results, 1, Len(op.issued) - 1))
         /\ op.pc \in {"refetching", "done"} =>
              op.issued = calls /\ Len(op.results) = Len(calls) /\ AllOk(op.results)
         /\ ~AllOk(op.results) =>
              op.pc = "failed" /\ Len(op.results) = Len(op.issued)

\* A recreate made its three calls and completed, and a destroy ended with
\* the failure of its deleteSandbox.
C19_Witness ==
  \E i, j \in OpIds :
    /\ ops[i].kind = "recreateSandbox" /\ ops[i].pc = "done"
    /\ ops[i].results = <<"ok", "ok", "ok">>
    /\ ops[j].kind = "destroySandbox" /\ ops[j].pc = "failed"
    /\ ops[j].issued = <<"stopSandbox", "deleteSandbox">>
    /\ ops[j].results = <<"ok", "failed">>

\* C10: no project has more than one sandbox.
C10_OneSandboxPerProject ==
  \A p \in ProjectIds : Cardinality(SandboxesOf(p)) <= 1

(***************************************************************************)
(* Properties of the remote calls of the two task history components.      *)
(***************************************************************************)
SubsMade == Cardinality({i \in SubIds : subs[i].pc # "none"})

\* The steps in which EnhancedTaskHistory may call listTaskHistory: mount,
\* the refresh button, a new projectId.
HistoryUserStep == Mount \/ HandleRefresh \/ \E p \in ProjectIds : ChangeProject(p)

\* The steps in which the hook may call subscribeToTask: its first call,
\* made when the first history load has succeeded, and a new projectId.
SubscribeUserStep == SubsMade = 0 \/ \E p \in ProjectIds : ChangeProject(p)

\* The steps in which TaskHistoryPanel may call listTaskHistory on behalf of
\* the user.
PanelUserStep == ThpMount \/ ThpRefreshClick \/ \E p \in ProjectIds : ThpChangeProject(p)

\* C7 as stated: a remote call is made only in a step taken for the user
\* (mount, refresh button, new projectId), never after a failure and never
\* on a timer.
C7_NoCallOnItsOwn ==
  [][/\ listCalls' > listCalls => HistoryUserStep
     /\ SubsMade' > SubsMade => SubscribeUserStep
     /\ thpCalls' > thpCalls => PanelUserStep]_vars

\* C7 amended: no call is made again because it failed.  EnhancedTaskHistory
\* calls listTaskHistory, and its hook subscribeToTask, only on mount, on the
\* refresh button and on a new projectId; TaskHistoryPanel calls
\* listTaskHistory on mount, on the refresh button, on a new projectId and
\* also each time its 5 second timer fires.
C7_NoRetryButPolling ==
  [][/\ listCalls' > listCalls => HistoryUserStep
     /\ SubsMade' > SubsMade => SubscribeUserStep
     /\ thpCalls' > thpCalls => PanelUserStep \/ ThpTick]_vars

\* C7 witness: both components had a call rejected and show the error, with
\* no call in flight; the panel's timer is still armed.
C7_Witness ==
  /\ Mounted /\ fetchError /\ ~loading /\ listPending = 0 /\ listCalls = 1
  /\ ThpMounted /\ thpError /\ ~thpLoading /\ thpPending = 0 /\ thpCalls = 1
  /\ thpInterval

(***************************************************************************)
(* Properties of the error display.                                        *)
(***************************************************************************)
\* C8: whenever the remote call of handleExecute, of the workspace dialog's
\* onSubmit or of handleSaveAiConfig was rejected, an error toast of that
\* handler or its on-screen error message has been shown.
C8_RejectionsShown ==
  /\ atd.pc = "rejected" =>
       atd.error # "" \/ Toast("handleExecute", "error") \in toasts
  /\ wsDialog.pc = "rejected" => Toast("onSubmit", "error") \in toasts
  /\ aiConfig.pc = "rejected" => Toast("handleSaveAiConfig", "error") \in toasts

(***************************************************************************)
(* Properties of the delete handlers.                                      *)
(***************************************************************************)
\* C9: a deleteWorkflow request is sent, and a phase or a step is removed,
\* only in a step in which a confirm() dialog for that very workflow, phase
\* or step was shown and accepted.
C9_DeleteNeedsConfirmation ==
  [][/\ deleteRequests' # deleteRequests /\ Len(deleteRequests') > Len(deleteRequests) =>
          /\ confirmLog' # confirmLog
          /\ LET c == Last(confirmLog') IN
             /\ c.kind = "workflow" /\ c.accepted
             /\ c.workflow = Last(deleteRequests').id
     /\ phases' # phases =>
          /\ confirmLog' # confirmLog
          /\ LET c == Last(confirmLog') IN
             /\ c.accepted
             /\ \/ c.kind = "phase" /\ phases' = RemoveAt(phases, c.phaseIndex)
                \/ /\ c.kind = "step"
                   /\ phases' = [phases EXCEPT ![c.phaseIndex] =
                                   RemoveAt(@, c.stepIndex)]]_vars

\* C9 witness: a declined phase delete left the phases as they were, then an
\* accepted workflow delete sent its request and an accepted step delete
\* removed the step.
C9_Witness ==
  /\ Len(confirmLog) = 3
  /\ confirmLog[1].kind = "phase" /\ ~confirmLog[1].accepted
  /\ confirmLog[2].kind = "workflow" /\ confirmLog[2].accepted
  /\ confirmLog[3].kind = "step" /\ confirmLog[3].accepted
  /\ Len(deleteRequests) = 1
  /\ phases = << <<"s2">>, <<"s3">> >>

(***************************************************************************)
(* Properties of the layout.                                               *)
(***************************************************************************)
\* The place in the laid-out list of the node of phase i (from 1): after the
\* columns of the phases before it.
RECURSIVE ColumnStart(_, _)
ColumnStart(phs, i) ==
  IF i = 1 THEN 1 ELSE ColumnStart(phs, i - 1) + 1 + Len(phs[i - 1].steps)

\* C11: layoutNodes places the i-th phase (from 0) at x = 50 + 400*i, y = 50
\* and the j-th step of that phase at the same x and
\* y = 50 + phase node height + 200 + 200*j; the result is the one the same
\* input always gives, and the nodes passed in are left as they were built.
C11_LayoutPositions ==
  /\ layNodes = ElementNodes(layPhases, 0)
  /\ layOut = layoutNodes(layNodes, layPhases)
  /\ Len(layOut) = Len(layNodes)
  /\ \A i \in 1..Len(layPhases) :
       LET at == ColumnStart(layPhases, i)
           phaseNode == layOut[at]
       IN /\ phaseNode.kind = "phase" /\ phaseNode.id = layPhases[i].id
          /\ phaseNode.x = 50 + 400 * (i - 1)
          /\ phaseNode.y = 50
          /\ \A j \in 1..Len(layPhases[i].steps) :
               LET stepNode == layOut[at + j] IN
               /\ stepNode.kind = "step" /\ stepNode.id = layPhases[i].steps[j]
               /\ stepNode.x = phaseNode.x
               /\ stepNode.y = 50 + phaseNode.height + 200 + 200 * (j - 1)

\* Two phases with the same id, the second with two steps, laid out: the
\* last step sits at x = 450, y = 550, and the nodes still have the
\* positions elements gave them.
C11_Witness ==
  /\ Len(layPhases) = 2
  /\ layPhases[1].id = layPhases[2].id
  /\ Len(layPhases[2].steps) = 2
  /\ Len(layOut) = 4 + Len(layPhases[1].steps)
  /\ layOut[Len(layOut)].x = 450 /\ layOut[Len(layOut)].y = 550
  /\ layNodes[Len(layNodes)].x = 120 /\ layNodes[Len(layNodes)].y = 250 + 120 + 90

(***************************************************************************)
(* Properties of the merge of a realtime event into the task map.          *)
(***************************************************************************)
TerminalStatuses == {"completed", "failed", "cancelled"}

\* A step in which onEvent processed one more event.
EventProcessed == Len(onEventLog') = Len(onEventLog) + 1

\* C12: once a task's status in the task map is completed, failed or
\* cancelled, no later realtime event for the same task changes it back to
\* queued, running or pending.
C12_TerminalStatusKept ==
  [][EventProcessed =>
       \A t \in DOMAIN tasksMap :
         (tasksMap[t].status \in TerminalStatuses /\ Last(onEventLog').taskId = t)
           => tasksMap'[t].status \notin {"queued", "running", "pending"}]_vars

\* C13: merging an event into an existing task entry keeps a non-empty
\* prompt, stepId or sandboxId when the event carries no value for that
\* field (no event carries a sandboxId).
C13_MergeKeepsExistingData ==
  [][EventProcessed =>
       \A t \in DOMAIN tasksMap :
         LET event == Last(onEventLog') IN
         event.taskId = t =>
           /\ (tasksMap[t].prompt # "" /\ event.prompt = "")
                => tasksMap'[t].prompt = tasksMap[t].prompt
           /\ (tasksMap[t].stepId # "" /\ event.stepId = "")
                => tasksMap'[t].stepId = tasksMap[t].stepId
           /\ tasksMap[t].sandboxId # ""
                => tasksMap'[t].sandboxId = tasksMap[t].sandboxId]_vars

(***************************************************************************)
(* Properties of the workflow state API client.                            *)
(***************************************************************************)
\* C14: when moveToNextPhase completes, the workflow state has the
\* requested currentPhaseId and currentStepId null, and its write changed
\* no step status the service held, whatever updateStepStatus calls ran
\* while it was in flight.
C14_MovePreservesStepStatuses ==
  [][(wfMove.pc = "writing" /\ wfMove'.pc = "done") =>
       /\ wfState'.currentPhaseId = wfMove.nextPhaseId
       /\ wfState'.currentStepId = "null"
       /\ wfState'.stepStatuses = wfState.stepStatuses]_vars

(***************************************************************************)
(* Properties of the connection state of the realtime hook.                *)
(***************************************************************************)
\* C15: in every reachable state of the hook, isConnected is true exactly
\* when connectionState is 'connected'.
C15_ConnectedFlagMatchesState == isConnected <=> connectionState = "connected"

\* The hook is connected after a subscribe() call resolved, an earlier call
\* was rejected and an 'error' connection event was received.
C15_Witness ==
  /\ Mounted /\ isConnected /\ connectionState = "connected" /\ hookError
  /\ \E i, j \in SubIds : subs[i].pc = "rejected" /\ subs[j].pc = "resolved"

(***************************************************************************)
(* Properties of the workflow editor.                                      *)
(***************************************************************************)
\* C16: starting from a definition with at least one phase, after any
\* sequence of add, edit, delete and move phase operations the phase list
\* is never empty, and no definition without phases is ever sent by
\* handleSave.
C16_NeverWithoutPhases ==
  /\ Len(phases) >= 1
  /\ \A k \in DOMAIN saves : Len(saves[k].definition) >= 1

\* A phase was deleted, the deletion of the only phase left was refused, and
\* the definition with that one phase was saved.
C16_Witness ==
  /\ Len(phases) = 1
  /\ "Cannot delete the last phase" \in alerts
  /\ \E k \in DOMAIN confirmLog :
       confirmLog[k].kind = "phase" /\ confirmLog[k].accepted
  /\ \E k \in DOMAIN saves :
       Len(saves[k].definition) = 1 /\ saves[k].status = "ok"

AllHaveSteps(definition) == \A k \in DOMAIN definition : Len(definition[k]) >= 1

\* handleSavePhase called onChange in this step.
PhaseSaved == edLast' = "savePhase" /\ edCount' # edCount /\ phases' # phases

C18_SelectionConsistent ==
  /\ selectedWorkspace # "" => selectedOrganization # ""
  /\ selectedProject # "" => selectedWorkspace # ""
  /\ selectedOrganization \notin DeletedThroughConsole("deleteOrganization")
  /\ selectedWorkspace \notin DeletedThroughConsole("deleteWorkspace")

(***************************************************************************)
(* Properties of the create and execute dialogs.                           *)
(***************************************************************************)
\* The submission of dialog d ended in this step without a remote call that
\* succeeded: the call was rejected, or the handler returned without one.
EndedWithoutSuccess(d, dNext) ==
  dNext.pc \in {"rejected", "returned"} /\ dNext.pc # d.pc

InitScope ==
  /\ ContextPageMounted
  /\ hierarchy \in Hierarchies
  /\ RtIdle /\ AuthIdle /\ NavIdle /\ CrudIdle /\ PollIdle /\ ErrIdle /\ DelIdle /\ LayIdle /\ WfIdle /\ EdIdle /\ DlgIdle /\ EdgeIdle

NextScope ==
  \/ \E k \in DOMAIN hierarchyRequests : ListOrganizationsResolves(k)
  \/ \E k \in DOMAIN hierarchyRequests : ListOrganizationsRejects(k)
  \/ \E k \in DOMAIN hierarchyRequests : ListWorkspacesResolves(k)
  \/ \E k \in DOMAIN hierarchyRequests : ListWorkspacesRejects(k)
  \/ \E k \in DOMAIN hierarchyRequests : ListProjectsResolves(k)
  \/ \E k \in DOMAIN hierarchyRequests : ListProjectsRejects(k)
  \/ \E value \in MemoryScopes : SetScopeType(value)
  \/ \E orgId \in OrgIds : SetSelectedOrgId(orgId)
  \/ \E workspaceId \in WsIds : SetSelectedWorkspaceId(workspaceId)
  \/ \E id \in ProjectIds : SetSelectedProjectId(id)

SpecScope == InitScope /\ [][NextScope]_vars

\* C21: on the context page, whenever no hierarchy request is in flight,
\* the listed workspaces and the selected workspace belong to the selected
\* organization, and the listed projects and the selected project belong to
\* the selected workspace.
C21_ScopeSelectionsNested ==
  hierarchyRequests = <<>> =>
    /\ \A w \in Ids(workspaces) : hierarchy.wsOrg[w] = selectedOrgId
    /\ selectedWorkspaceId # "" => hierarchy.wsOrg[selectedWorkspaceId] = selectedOrgId
    /\ \A p \in Ids(projects) : hierarchy.projWs[p] = selectedWorkspaceId
    /\ selectedProjectId # "" => hierarchy.projWs[selectedProjectId] = selectedWorkspaceId

InitEdges ==
  /\ \E phs \in EdgePhaseLists : EdgeStart(phs, <<>>)
  /\ RtIdle /\ AuthIdle /\ NavIdle /\ CrudIdle /\ PollIdle /\ ErrIdle /\ DelIdle /\ LayIdle /\ WfIdle /\ EdIdle /\ DlgIdle /\ CtxIdle

NextEdges ==
  \/ \E phs \in EdgePhaseLists : RenderWithPhases(phs)
  \/ \E transition \in Transitions : RenderWithTransition(transition)
  \/ \E k \in 1..MaxTransitions : RenderWithoutTransition(k)

SpecEdges == InitEdges /\ [][NextEdges]_vars

EdgesOf(connectionType) ==
  {k \in DOMAIN edges : edges[k].connectionType = connectionType}

\* C22: every phase-to-phase edge has type 'smoothstep' when its transition
\* type is 'forward' and 'simplebezier' when it is 'feedback' or 'loop';
\* every phase-to-step, step-to-step and linked-workflow edge has type
\* 'smoothstep'.
C22_EdgeTypes ==
  \A k \in DOMAIN edges :
    /\ (edges[k].connectionType = "phase-to-phase"
          /\ edges[k].transitionType = "forward") => edges[k].type = "smoothstep"
    /\ (edges[k].connectionType = "phase-to-phase"
          /\ edges[k].transitionType \in {"feedback", "loop"})
         => edges[k].type = "simplebezier"
    /\ edges[k].connectionType \in {"phase-to-step", "step-to-step", "linked-workflow"}
         => edges[k].type = "smoothstep"

C22_Witness ==
  /\ \E k \in EdgesOf("phase-to-phase") :
       edges[k].transitionType = "forward" /\ edges[k].type = "smoothstep"
  /\ \E k \in EdgesOf("phase-to-phase") :
       edges[k].transitionType = "feedback" /\ edges[k].type = "simplebezier"
  /\ EdgesOf("phase-to-step") # {}
  /\ EdgesOf("step-to-step") # {}
  /\ EdgesOf("linked-workflow") # {}

====
